---- MODULE Spec2Model ----
(***************************************************************************)
(* Entity resolution engine of hackathon-boon-ai:                          *)
(*   src/src/entity_mapper/enhanced_matching.py  (similarity library and   *)
(*                                 the staged multi_stage_entity_matching) *)
(*   src/src/entity_mapper/mapper.py  (EntityDatabase, EntityMapper)       *)
(*   src/src/entity_mapper/schema.py  (MappingResult, entity kinds)        *)
(*                                                                         *)
(* Python strings are sequences of one-character strings.  Scores are      *)
(* exact rationals <<numerator, denominator>> in lowest terms.             *)
(***************************************************************************)
EXTENDS Integers, Sequences, FiniteSets, TLC

(***************************************************************************)
(* Characters                                                              *)
(***************************************************************************)
\* The printable ASCII characters in code-point order; Ascii[1] is chr(32).
\* "chr96" stands for the grave accent, which the TLA+ lexer does not accept
\* inside a string.
Ascii ==
  <<
    " ", "!", "\"", "#", "$", "%", "&", "'", "(", ")", "*", "+",
    ",", "-", ".", "/", "0", "1", "2", "3", "4", "5", "6", "7",
    "8", "9", ":", ";", "<", "=", ">", "?", "@", "A", "B", "C",
    "D", "E", "F", "G", "H", "I", "J", "K", "L", "M", "N", "O",
    "P", "Q", "R", "S", "T", "U", "V", "W", "X", "Y", "Z", "[",
    "\\", "]", "^", "_", "chr96", "a", "b", "c", "d", "e", "f", "g",
    "h", "i", "j", "k", "l", "m", "n", "o", "p", "q", "r", "s",
    "t", "u", "v", "w", "x", "y", "z", "{", "|", "}", "~"
  >>

Chars == {Ascii[i] : i \in 1..Len(Ascii)}

\* Position of a character in Ascii: its code point minus 31.
OrdTable == [c \in Chars |-> CHOOSE i \in 1..Len(Ascii) : Ascii[i] = c]

Ord(c) == OrdTable[c]

\* str.lower() on one character: "A".."Z" (positions 34..59) map 32 places up.
LowerTable == [c \in Chars |->
                 IF OrdTable[c] >= 34 /\ OrdTable[c] <= 59
                 THEN Ascii[OrdTable[c] + 32] ELSE c]

\* \w of the re module: letters, digits and the underscore.
IsWordChar(c) ==
  LET o == Ord(c)
  IN  \/ (o >= 17 /\ o <= 26)
      \/ (o >= 34 /\ o <= 59)
      \/ (o >= 66 /\ o <= 91)
      \/ c = "_"

\* \s of the re module and the separators of str.split(): only the blank is
\* in the modelled character set.
IsSpace(c) == c = " "

(***************************************************************************)
(* Loops and local values                                                  *)
(***************************************************************************)
\* F applied to the value of x: x is evaluated once, before F's body, as the
\* right-hand side of an assignment is.
Strict(F(_), x) == CHOOSE r \in {F(v) : v \in {x}} : TRUE

Strict2(F(_, _), x, y) == CHOOSE r \in {F(v, w) : v \in {x}, w \in {y}} : TRUE

Strict3(F(_, _, _), x, y, z) ==
  CHOOSE r \in {F(u, v, w) : u \in {x}, v \in {y}, w \in {z}} : TRUE

\* The loop "for i in lo..hi: acc = F(acc, i)", split in halves so that the
\* evaluation depth grows with the logarithm of the range.
RECURSIVE FoldRange(_, _, _, _)
FoldRange(F(_, _), acc, lo, hi) ==
  IF lo > hi THEN acc
  ELSE IF lo = hi THEN F(acc, lo)
  ELSE Strict(LAMBDA left : FoldRange(F, left, (lo + hi) \div 2 + 1, hi),
              FoldRange(F, acc, lo, (lo + hi) \div 2))

(***************************************************************************)
(* Strings                                                                 *)
(***************************************************************************)
\* str.lower()
Lower(s) == FoldRange(LAMBDA acc, i : Append(acc, LowerTable[s[i]]), <<>>, 1, Len(s))

RECURSIVE StrLessFrom(_, _, _)
StrLessFrom(a, b, i) ==
  IF i > Len(a) THEN i <= Len(b)
  ELSE IF i > Len(b) THEN FALSE
  ELSE IF a[i] = b[i] THEN StrLessFrom(a, b, i + 1)
  ELSE Ord(a[i]) < Ord(b[i])

\* a < b as Python compares str: lexicographic by code point.
StrLess(a, b) == StrLessFrom(a, b, 1)

\* One step of str.split(): st.acc are the finished tokens, st.cur the run of
\* non-blank characters being read.
SplitStep(s, st, i) ==
  IF IsSpace(s[i])
  THEN [acc |-> IF st.cur = <<>> THEN st.acc ELSE Append(st.acc, st.cur), cur |-> <<>>]
  ELSE [acc |-> st.acc, cur |-> Append(st.cur, s[i])]

\* The end of str.split(): the run being read, if any, is the last token.
SplitEnd(st) == IF st.cur = <<>> THEN st.acc ELSE Append(st.acc, st.cur)

\* str.split() without arguments: the maximal runs of non-blank characters.
Split(s) ==
  Strict(SplitEnd, FoldRange(LAMBDA acc, i : SplitStep(s, acc, i),
                             [acc |-> <<>>, cur |-> <<>>], 1, Len(s)))

\* " ".join(toks)
Join(toks) ==
  FoldRange(LAMBDA acc, i : IF i = 1 THEN toks[i] ELSE acc \o <<" ">> \o toks[i],
            <<>>, 1, Len(toks))

RECURSIVE InsertSorted(_, _)
InsertSorted(sorted, t) ==
  IF sorted = <<>> THEN <<t>>
  ELSE IF StrLess(t, Head(sorted)) THEN <<t>> \o sorted
  ELSE <<Head(sorted)>> \o InsertSorted(Tail(sorted), t)

\* sorted(toks) for a list of strings (stable: an equal element goes behind).
Sorted(toks) ==
  FoldRange(LAMBDA acc, i : InsertSorted(acc, toks[i]), <<>>, 1, Len(toks))

ToSet(seq) == {seq[i] : i \in 1..Len(seq)}

\* The distinct elements of toks, in order of first occurrence.
Distinct(toks) ==
  FoldRange(LAMBDA acc, i : IF toks[i] \in ToSet(acc) THEN acc ELSE Append(acc, toks[i]),
            <<>>, 1, Len(toks))

\* sorted(S) for a set of strings that are the elements of the list toks.
SortedSet(toks, S) == Sorted(SelectSeq(Distinct(toks), LAMBDA t : t \in S))

(***************************************************************************)
(* Rational numbers, kept in lowest terms with a positive denominator      *)
(***************************************************************************)
RECURSIVE Gcd(_, _)
Gcd(a, b) == IF b = 0 THEN a ELSE Gcd(b, a % b)

Abs(x) == IF x < 0 THEN -x ELSE x

Rat(n, d) ==
  IF n = 0 THEN <<0, 1>> ELSE <<n \div Gcd(Abs(n), d), d \div Gcd(Abs(n), d)>>

\* a + b, g the greatest common divisor of the denominators.
RAddOver(a, b, g) ==
  Rat(a[1] * (b[2] \div g) + b[1] * (a[2] \div g), (a[2] \div g) * b[2])

RAdd(a, b) == RAddOver(a, b, Gcd(a[2], b[2]))

RSub(a, b) == RAdd(a, <<-b[1], b[2]>>)

\* a * b, g1 and g2 the common divisors cancelled crosswise before multiplying.
RMulOver(a, b, g1, g2) ==
  Rat((a[1] \div g1) * (b[1] \div g2), (a[2] \div g2) * (b[2] \div g1))

RMul(a, b) == RMulOver(a, b, Gcd(Abs(a[1]), b[2]), Gcd(Abs(b[1]), a[2]))

\* a / b for b > 0
RDiv(a, b) == RMul(a, <<b[2], b[1]>>)

\* a < b for non-negative fractions, by comparing integer parts and then the
\* reciprocals of the fractional parts (no cross product is formed).
RECURSIVE RLessPos(_, _, _, _)
RLessPos(an, ad, bn, bd) ==
  IF an \div ad # bn \div bd THEN an \div ad < bn \div bd
  ELSE IF bn % bd = 0 THEN FALSE
  ELSE IF an % ad = 0 THEN TRUE
  ELSE RLessPos(bd, bn % bd, ad, an % ad)

RLess(a, b) ==
  IF a[1] < 0 /\ b[1] >= 0 THEN TRUE
  ELSE IF a[1] >= 0 /\ b[1] < 0 THEN FALSE
  ELSE IF a[1] < 0 THEN RLessPos(-b[1], b[2], -a[1], a[2])
  ELSE RLessPos(a[1], a[2], b[1], b[2])

RGeq(a, b) == ~RLess(a, b)

RMax(a, b) == IF RLess(a, b) THEN b ELSE a

Zero == <<0, 1>>
One == <<1, 1>>

Hundred == <<100, 1>>

(***************************************************************************)
(* Tokenizer and Jaccard similarity                                        *)
(***************************************************************************)
\* The replacement text of re.sub(r'(\w+)&(\w+)', r'\1_and_\2', text).
AndJoiner == <<"_", "a", "n", "d", "_">>

\* re.sub(r'(\w+)&(\w+)', r'\1_and_\2', text): matches are found left to
\* right and do not overlap.  An ampersand is rewritten when a word character
\* stands on both sides of it and the word run on its left is not the right
\* operand of the previous match (st.used while scanning such a run).
AmpStep(text, st, i) ==
  IF /\ text[i] = "&"
     /\ i > 1
     /\ i < Len(text)
     /\ IsWordChar(text[i - 1])
     /\ IsWordChar(text[i + 1])
     /\ ~st.used
  THEN [out |-> st.out \o AndJoiner, used |-> TRUE]
  ELSE [out |-> Append(st.out, text[i]), used |-> st.used /\ IsWordChar(text[i])]

AmpRewrite(text) ==
  FoldRange(LAMBDA acc, i : AmpStep(text, acc, i),
            [out |-> <<>>, used |-> FALSE], 1, Len(text)).out

\* re.sub(r'[^\w\s\.\-]', ' ', text)
StripPunct(text) ==
  FoldRange(LAMBDA acc, i :
              Append(acc, IF \/ IsWordChar(text[i]) \/ IsSpace(text[i])
                             \/ text[i] = "." \/ text[i] = "-"
                          THEN text[i] ELSE " "),
            <<>>, 1, Len(text))

stop_words ==
  { <<"t", "h", "e">>, <<"a", "n", "d">>, <<"a">>, <<"a", "n">>, <<"o", "f">>,
    <<"t", "o">>, <<"f", "o", "r">>, <<"i", "n">>, <<"o", "n">>, <<"b", "y">> }

\* The filter of tokenize: len(t) > 1 and t not in stop_words.
IsKeptToken(t) == Len(t) > 1 /\ t \notin stop_words

\* tokenize(text): lower-case, rewrite the ampersand, strip punctuation, split,
\* drop the tokens of length <= 1 and the stop words.
tokenize(text) ==
  SelectSeq(Strict(Split, Strict(StripPunct, Strict(AmpRewrite, Lower(text)))),
            IsKeptToken)

\* jaccard_similarity(set1, set2)
jaccard_similarity(set1, set2) ==
  IF Cardinality(set1 \cup set2) > 0
  THEN Rat(Cardinality(set1 \cap set2), Cardinality(set1 \cup set2))
  ELSE Zero

(***************************************************************************)
(* RapidFuzz: fuzz.ratio, fuzz.token_sort_ratio, fuzz.token_set_ratio      *)
(* (processor = None: no case folding inside the library)                  *)
(***************************************************************************)
Max2(x, y) == IF x >= y THEN x ELSE y

\* One row of the longest-common-subsequence table, for the character c of a:
\* cur[j + 1] is the entry for the prefix of b of length j, prev the row before.
LcsRow(c, b, prev) ==
  FoldRange(LAMBDA cur, j : Append(cur, IF c = b[j] THEN prev[j] + 1
                                        ELSE Max2(prev[j + 1], cur[j])),
            <<0>>, 1, Len(b))

\* Length of the longest common subsequence of a and b.
LcsValues(a, b) ==
  FoldRange(LAMBDA prev, i : LcsRow(a[i], b, prev),
            [j \in 1..(Len(b) + 1) |-> 0], 1, Len(a))[Len(b) + 1]

Lcs(a, b) == Strict2(LcsValues, a, b)

\* Indel distance: insertions and deletions turning a into b.
IndelDistance(a, b) == Len(a) + Len(b) - 2 * Lcs(a, b)

\* norm_distance<100>(dist, lensum): 100 - 100 * dist / lensum, 100 if lensum = 0.
NormDistance(dist, lensum) ==
  IF lensum > 0 THEN Rat(100 * (lensum - dist), lensum) ELSE Hundred

\* fuzz.ratio(s1, s2): normalized Indel similarity, 0..100.
FuzzRatio(s1, s2) == NormDistance(IndelDistance(s1, s2), Len(s1) + Len(s2))

\* fuzz.token_sort_ratio(s1, s2): ratio of the sorted, re-joined tokens.
FuzzTokenSortRatio(s1, s2) ==
  Strict2(FuzzRatio, Join(Sorted(Split(s1))), Join(Sorted(Split(s2))))

\* The end of fuzz.token_set_ratio: the greatest of the three ratios, from the
\* lengths of the joined intersection and differences and the Indel distance of
\* the joined differences.
TokenSetScore(sect_len, ab_len, ba_len, dist) ==
  LET sep == IF sect_len # 0 THEN 1 ELSE 0
      sect_ab_len == sect_len + sep + ab_len
      sect_ba_len == sect_len + sep + ba_len
      result == NormDistance(dist, sect_ab_len + sect_ba_len)
  IN  IF sect_len = 0 THEN result
      ELSE RMax(RMax(result, NormDistance(sep + ab_len, sect_len + sect_ab_len)),
                NormDistance(sep + ba_len, sect_len + sect_ba_len))

\* fuzz.token_set_ratio once the sorted tokens of the intersection and of the
\* two differences are joined: 100 when one sentence is part of the other.
TokenSetJoined(sect, diff_ab_joined, diff_ba_joined) ==
  IF sect # <<>> /\ (diff_ab_joined = <<>> \/ diff_ba_joined = <<>>) THEN Hundred
  ELSE TokenSetScore(Len(sect), Len(diff_ab_joined), Len(diff_ba_joined),
                     IndelDistance(diff_ab_joined, diff_ba_joined))

\* fuzz.token_set_ratio on the token lists of the two strings: 0 when either
\* has no token.
TokenSetTokens(tokens_a, tokens_b) ==
  IF tokens_a = <<>> \/ tokens_b = <<>> THEN Zero
  ELSE Strict3(TokenSetJoined,
               Join(SortedSet(tokens_a, ToSet(tokens_a) \cap ToSet(tokens_b))),
               Join(SortedSet(tokens_a, ToSet(tokens_a) \ ToSet(tokens_b))),
               Join(SortedSet(tokens_b, ToSet(tokens_b) \ ToSet(tokens_a))))

\* fuzz.token_set_ratio(s1, s2)
FuzzTokenSetRatio(s1, s2) == Strict2(TokenSetTokens, Split(s1), Split(s2))

(***************************************************************************)
(* Similarity engine                                                       *)
(***************************************************************************)
\* token_sort_ratio(s1, s2)
token_sort_ratio(s1, s2) == RDiv(FuzzTokenSortRatio(s1, s2), Hundred)

\* token_set_ratio(s1, s2)
token_set_ratio(s1, s2) == RDiv(FuzzTokenSetRatio(s1, s2), Hundred)

\* The weights dict of weighted_similarity, in insertion order.
WeightKeys == <<"exact_match", "ratio", "token_sort", "token_set", "jaccard">>

\* weights with nothing for the exact match.
weightsWithoutExact ==
  [exact_match |-> <<0, 1>>, ratio |-> <<1, 1>>, token_sort |-> <<3, 2>>,
   token_set |-> <<2, 1>>, jaccard |-> <<3, 2>>]

weights ==
  [exact_match |-> <<2, 1>>, ratio |-> <<1, 1>>, token_sort |-> <<3, 2>>,
   token_set |-> <<2, 1>>, jaccard |-> <<3, 2>>]

\* SimilarityScores with the second string of the ratio left in its own case.
SimilarityScoresOneSided(s1, s2) ==
  [exact_match |-> IF Lower(s1) = Lower(s2) THEN One ELSE Zero,
   ratio       |-> RDiv(FuzzRatio(Lower(s1), s2), Hundred),
   token_sort  |-> token_sort_ratio(s1, s2),
   token_set   |-> token_set_ratio(s1, s2),
   jaccard     |-> jaccard_similarity(ToSet(tokenize(s1)), ToSet(tokenize(s2)))]

\* The five metrics of weighted_similarity(s1, s2).
SimilarityScores(s1, s2) ==
  [exact_match |-> IF Lower(s1) = Lower(s2) THEN One ELSE Zero,
   ratio       |-> RDiv(FuzzRatio(Lower(s1), Lower(s2)), Hundred),
   token_sort  |-> token_sort_ratio(s1, s2),
   token_set   |-> token_set_ratio(s1, s2),
   jaccard     |-> jaccard_similarity(ToSet(tokenize(s1)), ToSet(tokenize(s2)))]

RECURSIVE SumOver(_, _, _)
SumOver(f, keys, i) ==
  IF i > Len(keys) THEN Zero ELSE RAdd(f[keys[i]], SumOver(f, keys, i + 1))

\* WeightedAverage dividing by 5.0 instead of the sum of the weights.
WeightedAverageByFive(scores) ==
  RDiv(SumOver([k \in DOMAIN weights |-> RMul(weights[k], scores[k])], WeightKeys, 1),
       <<5, 1>>)

\* weighted_sum / total_weight for the dict of the five metrics.
WeightedAverage(scores) ==
  RDiv(SumOver([k \in DOMAIN weights |-> RMul(weights[k], scores[k])], WeightKeys, 1),
       SumOver(weights, WeightKeys, 1))

\* weighted_similarity(s1, s2)
weighted_similarity(s1, s2) == Strict(WeightedAverage, SimilarityScores(s1, s2))

(***************************************************************************)
(* Embedding provider and semantic similarity                              *)
(***************************************************************************)
\* Python's None, for the values that are otherwise records or pairs.
None == <<>>

\* What the embedding provider can answer to one call: a vector, or a failure
\* (openai.Embedding.create raises), written as the vector without entries.
ProviderError == <<>>

Vectors == { <<1, 0>>, <<0, 1>> }

ProviderOutcomes == Vectors \cup {ProviderError}

\* The fallback of get_embedding ([0.0] * 1536), in the dimension of Vectors.
ZeroVector == <<0, 0>>

\* get_embedding(text) when the provider answers `outcome`.
get_embedding(outcome) == IF outcome = ProviderError THEN ZeroVector ELSE outcome

Dot(u, v) == FoldRange(LAMBDA acc, i : acc + u[i] * v[i], 0, 1, Len(u))

\* The square root of a perfect square.
Isqrt(n) == CHOOSE k \in 0..n : k * k = n

\* The Euclidean norm of a vector whose norm is an integer.
VecNorm(u) == Isqrt(Dot(u, u))

\* The divisor sklearn's normalize uses for a row: a zero norm is replaced by 1.
NonZero(k) == IF k = 0 THEN 1 ELSE k

\* sklearn cosine_similarity([u], [v])[0][0]: rows are normalized, a zero row
\* is left as it is.
cosine_similarity(u, v) == Rat(Dot(u, v), NonZero(VecNorm(u)) * NonZero(VecNorm(v)))

\* A dict from strings to vectors; EmptyCache is {}.
EmptyCache == [x \in {} |-> ZeroVector]

\* The embeddings_cache argument: passed = FALSE is the default None,
\* otherwise map is the caller's dict.
NoCache == [passed |-> FALSE, map |-> EmptyCache]

CallerCache(map) == [passed |-> TRUE, map |-> map]

CachePut(cache, key, val) ==
  [x \in DOMAIN cache \cup {key} |-> IF x = key THEN val ELSE cache[x]]

\* "if s in cache: emb = cache[s] / else: emb = get_embedding(s); cache[s] = emb"
\* when the provider would answer o: whether the cache had s, the embedding,
\* and the cache afterwards.
CacheLookup(cache, s, o) ==
  IF s \in DOMAIN cache
  THEN [hit |-> TRUE, emb |-> cache[s], cache |-> cache]
  ELSE [hit |-> FALSE, emb |-> get_embedding(o), cache |-> CachePut(cache, s, get_embedding(o))]

\* What semantic_similarity returns and leaves behind after its two lookups;
\* own: the dict it worked on is not the caller's.
SemanticEnd(embeddings_cache, own, first, second) ==
  [similarity |-> cosine_similarity(first.emb, second.emb),
   calls |-> (IF first.hit THEN 0 ELSE 1) + (IF second.hit THEN 0 ELSE 1),
   caller_map |-> IF own THEN embeddings_cache.map ELSE second.cache]

\* The two lookups of semantic_similarity on the dict `cache`.
SemanticLookups(s1, s2, embeddings_cache, own, cache, o1, o2) ==
  Strict(LAMBDA first :
           Strict(LAMBDA second : SemanticEnd(embeddings_cache, own, first, second),
                  CacheLookup(first.cache, s2, o2)),
         CacheLookup(cache, s1, o1))

\* semantic_similarity(s1, s2, embeddings_cache) with OPENAI_AVAILABLE, where
\* o1 and o2 are the provider's answers to the calls for s1 and s2 (if made).
\* `cache = embeddings_cache or {}`: the dict the function works on is the
\* caller's when that is passed and non-empty, a new one otherwise.
\* caller_map is the caller's dict after the call.
semantic_similarity(s1, s2, embeddings_cache, o1, o2) ==
  IF ~embeddings_cache.passed \/ DOMAIN embeddings_cache.map = {}
  THEN SemanticLookups(s1, s2, embeddings_cache, TRUE, EmptyCache, o1, o2)
  ELSE SemanticLookups(s1, s2, embeddings_cache, FALSE, embeddings_cache.map, o1, o2)

(***************************************************************************)
(* find_best_match, detect_name_changes                                    *)
(***************************************************************************)
\* MaxByScore returning the last pair with the greatest score.
MaxByScoreLast(scores) ==
  FoldRange(LAMBDA best, i : IF RLess(scores[i][2], best[2]) THEN best ELSE scores[i],
            scores[1], 2, Len(scores))

\* max(scores, key=lambda x: x[1]): the first pair with the greatest score.
MaxByScore(scores) ==
  FoldRange(LAMBDA best, i : IF RLess(best[2], scores[i][2]) THEN scores[i] ELSE best,
            scores[1], 2, Len(scores))

\* "if best_match[1] >= threshold: return best_match / else: return None"
IfAtLeast(best_match, threshold) ==
  IF RGeq(best_match[2], threshold) THEN best_match ELSE None

\* The tail of find_best_match: the best pair if it reaches the threshold.
BestAboveThreshold(scores, threshold) ==
  IF scores = <<>> THEN None
  ELSE Strict2(IfAtLeast, MaxByScore(scores), threshold)

\* The similarity function find_best_match selects for a lexical method.
SimilarityFunc(method, s1, s2) ==
  IF method = "token_set" THEN token_set_ratio(s1, s2) ELSE weighted_similarity(s1, s2)

\* scores = [(candidate, similarity_func(query, candidate)) for candidate in candidates]
CandidateScores(query, candidates, method) ==
  FoldRange(LAMBDA acc, i :
              Append(acc, <<candidates[i], SimilarityFunc(method, query, candidates[i])>>),
            <<>>, 1, Len(candidates))

\* find_best_match(query, candidates, threshold, method), method not "semantic".
find_best_match(query, candidates, threshold, method) ==
  IF candidates = <<>> THEN None
  ELSE Strict2(BestAboveThreshold, CandidateScores(query, candidates, method), threshold)

\* scores of find_best_match for the method "semantic" when the provider
\* package is missing: semantic_similarity returns 0.0 for every candidate.
ZeroScores(candidates) ==
  FoldRange(LAMBDA acc, i : Append(acc, <<candidates[i], Zero>>), <<>>, 1, Len(candidates))

\* scores of a find_best_match call that asks no provider.
ScoresWithoutProvider(query, candidates, method) ==
  IF method = "semantic" THEN ZeroScores(candidates)
  ELSE CandidateScores(query, candidates, method)

\* EntityById falling back on the first entity of the list when no entity has
\* the id.
EntityByIdOrFirst(entity_list, id) ==
  IF \E i \in 1..Len(entity_list) : entity_list[i].id = id
  THEN entity_list[CHOOSE i \in 1..Len(entity_list) :
                     /\ entity_list[i].id = id
                     /\ \A k \in 1..(i - 1) : entity_list[k].id # id]
  ELSE IF entity_list # <<>> THEN entity_list[1]
  ELSE None

\* The first entity of the list with the given id, None if there is none.
EntityById(entity_list, id) ==
  IF \E i \in 1..Len(entity_list) : entity_list[i].id = id
  THEN entity_list[CHOOSE i \in 1..Len(entity_list) :
                     /\ entity_list[i].id = id
                     /\ \A k \in 1..(i - 1) : entity_list[k].id # id]
  ELSE None

\* The first entity of the list with exactly the given name, None if none.
EntityByName(entity_list, name) ==
  IF \E i \in 1..Len(entity_list) : entity_list[i].name = name
  THEN entity_list[CHOOSE i \in 1..Len(entity_list) :
                     /\ entity_list[i].name = name
                     /\ \A k \in 1..(i - 1) : entity_list[k].name # name]
  ELSE None

NameChangeDiscount == <<9, 10>>

\* The dict detect_name_changes returns for a record.
NameChangeMatch(original_name, change, prev_similarity, matched_entity) ==
  [original_name |-> original_name,
   previous_name |-> change.previous_name,
   current_name |-> change.current_name,
   entity_id |-> change.entity_id,
   similarity |-> prev_similarity,
   confidence |-> RMul(prev_similarity, NameChangeDiscount),
   matched_entity |-> matched_entity]

\* One record of the loop of detect_name_changes: the dict to return, or None
\* when the loop goes on to the next record.
DetectAt(original_name, change, threshold, prev_similarity, matched_entity) ==
  IF RGeq(prev_similarity, threshold) /\ matched_entity # None
  THEN NameChangeMatch(original_name, change, prev_similarity, matched_entity)
  ELSE None

\* The loop of detect_name_changes from record i on.
RECURSIVE DetectFrom(_, _, _, _, _)
DetectFrom(original_name, potential_matches, changes, threshold, i) ==
  IF i > Len(changes) THEN None
  ELSE Strict(LAMBDA found :
                IF found # None THEN found
                ELSE DetectFrom(original_name, potential_matches, changes, threshold, i + 1),
              Strict2(LAMBDA prev_similarity, matched_entity :
                        DetectAt(original_name, changes[i], threshold,
                                 prev_similarity, matched_entity),
                      weighted_similarity(original_name, changes[i].previous_name),
                      EntityById(potential_matches, changes[i].entity_id)))

\* detect_name_changes going through the records from the last to the first.
detect_name_changes_backwards(original_name, potential_matches, changes, threshold) ==
  DetectFrom(original_name, potential_matches,
             [i \in 1..Len(changes) |-> changes[Len(changes) + 1 - i]], threshold, 1)

\* detect_name_changes(original_name, potential_matches, name_changes, threshold)
detect_name_changes(original_name, potential_matches, changes, threshold) ==
  DetectFrom(original_name, potential_matches, changes, threshold, 1)

(***************************************************************************)
(* multi_stage_entity_matching                                             *)
(***************************************************************************)
\* entity.get("aliases", [])
Aliases(entity) == IF "aliases" \in DOMAIN entity THEN entity.aliases ELSE <<>>

\* IsExact without the loop over the aliases.
IsExactName(entity, name) == Lower(entity.name) = Lower(name)

\* Case-insensitive equality of name with the entity's name or an alias.
IsExact(entity, name) ==
  \/ Lower(entity.name) = Lower(name)
  \/ \E k \in 1..Len(Aliases(entity)) : Lower(Aliases(entity)[k]) = Lower(name)

\* exact_matches of stage 1 (direct_matches of search_by_name): the entities
\* matching exactly, in registry order, each with score 1.0.
ExactMatches(entity_list, name) ==
  FoldRange(LAMBDA acc, i : IF IsExact(entity_list[i], name)
                            THEN Append(acc, <<entity_list[i], One>>) ELSE acc,
            <<>>, 1, Len(entity_list))

Names(entity_list) == [i \in 1..Len(entity_list) |-> entity_list[i].name]

\* The dict a stage returns.  name_change_details = None: the key is absent.
StageResult(entity, confidence, method, detected, details) ==
  [matched_entity |-> entity, confidence |-> confidence, method |-> method,
   name_change_detected |-> detected, name_change_details |-> details]

NoMatchResult == StageResult(None, Zero, "no_match", FALSE, None)

\* ExactStage taking the last exact match instead of the first.
ExactStageLast(exact_matches) ==
  StageResult(exact_matches[Len(exact_matches)][1], exact_matches[Len(exact_matches)][2],
              "exact_match", FALSE, None)

\* What stage 1 returns when exact_matches is not empty.
ExactStage(exact_matches) ==
  StageResult(exact_matches[1][1], exact_matches[1][2], "exact_match", FALSE, None)

\* NameChangeStage without the key name_change_details.
NameChangeStageNoDetails(name_change) ==
  StageResult(name_change.matched_entity, name_change.confidence, "name_change", TRUE, None)

\* What stage 2 returns when detect_name_changes found a record.
NameChangeStage(name_change) ==
  StageResult(name_change.matched_entity, name_change.confidence, "name_change", TRUE,
              [previous_name |-> name_change.previous_name,
               current_name |-> name_change.current_name])

\* "if matched_entity: return {...}" of stages 3 and 4; None: no return.
MatchedStage(matched_entity, confidence, method) ==
  IF matched_entity # None
  THEN StageResult(matched_entity, confidence, method, FALSE, None)
  ELSE None

\* Stages 3 and 4 after find_best_match: the entity carrying the best name.
BestMatchStage(candidate_entities, best_match, method) ==
  IF best_match = None THEN None
  ELSE Strict3(MatchedStage, EntityByName(candidate_entities, best_match[1]),
               best_match[2], method)

\* Stage 3 of multi_stage_entity_matching.
FuzzyStage(query_name, candidate_entities, threshold) ==
  Strict(LAMBDA best_match : BestMatchStage(candidate_entities, best_match, "fuzzy_match"),
         find_best_match(query_name, Names(candidate_entities), threshold, "weighted"))

\* Stages 2 and 3, reached when stage 1 found no exact match.
AfterExactStage(query_name, candidate_entities, changes, threshold) ==
  Strict(LAMBDA name_change :
           IF name_change # None
           THEN [stages |-> <<"exact", "name_change">>,
                 result |-> NameChangeStage(name_change)]
           ELSE [stages |-> <<"exact", "name_change", "fuzzy">>,
                 result |-> FuzzyStage(query_name, candidate_entities, threshold)],
         detect_name_changes(query_name, candidate_entities, changes, threshold))

\* LexicalStages with the name-change stage tried before the exact stage.
LexicalStagesNameChangeFirst(query_name, candidate_entities, changes, threshold) ==
  Strict(LAMBDA name_change :
           IF name_change # None
           THEN [stages |-> <<"exact", "name_change">>,
                 result |-> NameChangeStage(name_change)]
           ELSE Strict(LAMBDA exact_matches :
                         IF exact_matches # <<>>
                         THEN [stages |-> <<"exact">>, result |-> ExactStage(exact_matches)]
                         ELSE [stages |-> <<"exact", "name_change", "fuzzy">>,
                               result |-> FuzzyStage(query_name, candidate_entities, threshold)],
                       ExactMatches(candidate_entities, query_name)),
         detect_name_changes(query_name, candidate_entities, changes, threshold))

\* Stages 1 to 3 of multi_stage_entity_matching.  `stages` lists the stages that
\* ran; result = None when none of them returned.
LexicalStages(query_name, candidate_entities, changes, threshold) ==
  Strict(LAMBDA exact_matches :
           IF exact_matches # <<>>
           THEN [stages |-> <<"exact">>, result |-> ExactStage(exact_matches)]
           ELSE AfterExactStage(query_name, candidate_entities, changes, threshold),
         ExactMatches(candidate_entities, query_name))

SemanticRelaxation == <<1, 10>>

\* "if best_match: ... return {...}" of stage 4, else the final no_match.
SemanticOutcome(staged) == IF staged # None THEN staged ELSE NoMatchResult

\* The end of stage 4, once every candidate has its semantic score.
SemanticStage(candidate_entities, scores, threshold) ==
  Strict(SemanticOutcome,
         BestMatchStage(candidate_entities,
                        BestAboveThreshold(scores, RSub(threshold, SemanticRelaxation)),
                        "semantic_match"))

(***************************************************************************)
(* EntityDatabase.search_by_name                                           *)
(***************************************************************************)
\* One entry of the list search_by_name returns.
SearchHit(entity, score, name_change) ==
  [entity |-> entity, score |-> score, name_change |-> name_change]

\* results after the loop over direct_matches.
DirectHits(direct_matches) ==
  [i \in 1..Len(direct_matches) |->
     SearchHit(direct_matches[i][1], direct_matches[i][2], None)]

\* The hits the loop over name-change records appends with score 1.0: the
\* records whose previous_name equals the name case-insensitively and whose
\* entity_id is the id of an entity (the first such entity).
ExactChangeHits(entity_list, changes, name) ==
  FoldRange(LAMBDA acc, i :
              IF /\ Lower(changes[i].previous_name) = Lower(name)
                 /\ EntityById(entity_list, changes[i].entity_id) # None
              THEN Append(acc, SearchHit(EntityById(entity_list, changes[i].entity_id),
                                         One, changes[i]))
              ELSE acc,
            <<>>, 1, Len(changes))

\* fuzz.ratio(a.lower(), b.lower()) / 100
RatioScore(a, b) == RDiv(Strict2(FuzzRatio, Lower(a), Lower(b)), Hundred)

\* "if alias_score > score and alias_score >= threshold": <<alias_score>> when
\* the alias is taken, None otherwise.
AliasTaken(alias_score, score, threshold) ==
  IF RLess(score, alias_score) /\ RGeq(alias_score, threshold)
  THEN <<alias_score>> ELSE None

\* The alias loop of the fuzzy pass: the score of the first alias, from alias k
\* on, that beats the name's score and reaches the threshold; None if none.
RECURSIVE FirstAliasScore(_, _, _, _, _)
FirstAliasScore(entity, name, score, threshold, k) ==
  IF k > Len(Aliases(entity)) THEN None
  ELSE Strict(LAMBDA taken :
                IF taken # None THEN taken
                ELSE FirstAliasScore(entity, name, score, threshold, k + 1),
              Strict3(AliasTaken, RatioScore(Aliases(entity)[k], name), score, threshold))

\* "results.append" of the alias loop: alias is what FirstAliasScore found.
AppendAliasHit(acc, entity, alias) ==
  IF alias # None THEN Append(acc, SearchHit(entity, alias[1], None)) ELSE acc

\* One entity of the fuzzy loop, score being the ratio of its name.
FuzzyEntityHit(acc, entity, name, threshold, score) ==
  IF RGeq(score, threshold)
  THEN Append(acc, SearchHit(entity, score, None))
  ELSE Strict3(AppendAliasHit, acc, entity,
               FirstAliasScore(entity, name, score, threshold, 1))

\* The hits the fuzzy loop over the entities appends (at most one per entity).
FuzzyEntityHits(entity_list, name, threshold) ==
  FoldRange(LAMBDA acc, i :
              Strict(LAMBDA score : FuzzyEntityHit(acc, entity_list[i], name, threshold, score),
                     RatioScore(entity_list[i].name, name)),
            <<>>, 1, Len(entity_list))

\* One record of the fuzzy loop over the name changes.
FuzzyChangeHit(acc, change, score, threshold, entity) ==
  IF RGeq(score, threshold) /\ entity # None
  THEN Append(acc, SearchHit(entity, score, change))
  ELSE acc

\* The hits the fuzzy loop over the name-change records appends.
FuzzyChangeHits(entity_list, changes, name, threshold) ==
  FoldRange(LAMBDA acc, i :
              Strict2(LAMBDA score, entity :
                        FuzzyChangeHit(acc, changes[i], score, threshold, entity),
                      RatioScore(changes[i].previous_name, name),
                      EntityById(entity_list, changes[i].entity_id)),
            <<>>, 1, Len(changes))

\* Insertion of a hit behind every hit whose score is not smaller.
RECURSIVE InsertByScore(_, _)
InsertByScore(sorted, hit) ==
  IF sorted = <<>> THEN <<hit>>
  ELSE IF RLess(Head(sorted).score, hit.score) THEN <<hit>> \o sorted
  ELSE <<Head(sorted)>> \o InsertByScore(Tail(sorted), hit)

\* SortByScoreDesc leaving the results in the order they were appended.
SortByScoreNot(results) == results

\* results.sort(key=lambda x: x["score"], reverse=True): stable, descending.
SortByScoreDesc(results) ==
  FoldRange(LAMBDA acc, i : InsertByScore(acc, results[i]), <<>>, 1, Len(results))

\* search_by_name after the exact pass over the name-change records.
AfterChangeHits(entity_list, changes, name, threshold, change_hits) ==
  IF change_hits # <<>> THEN change_hits
  ELSE Strict(SortByScoreDesc,
              FuzzyEntityHits(entity_list, name, threshold)
              \o FuzzyChangeHits(entity_list, changes, name, threshold))

\* AfterDirectMatches without the return after the direct matches: the pass
\* over the name-change records adds its hits.
AfterDirectMatchesFallThrough(entity_list, changes, name, threshold, direct_matches) ==
  DirectHits(direct_matches) \o ExactChangeHits(entity_list, changes, name)

\* search_by_name after the pass over the entities for direct matches.
AfterDirectMatches(entity_list, changes, name, threshold, direct_matches) ==
  IF direct_matches # <<>> THEN DirectHits(direct_matches)
  ELSE Strict(LAMBDA change_hits :
                AfterChangeHits(entity_list, changes, name, threshold, change_hits),
              ExactChangeHits(entity_list, changes, name))

\* EntityDatabase.search_by_name(name, threshold)
search_by_name(entity_list, changes, name, threshold) ==
  Strict(LAMBDA direct_matches :
           AfterDirectMatches(entity_list, changes, name, threshold, direct_matches),
         ExactMatches(entity_list, name))

(***************************************************************************)
(* EntityMapper.map_entity                                                 *)
(***************************************************************************)
\* MappingResult.  The Optional[str] fields mapped_entity_id and
\* mapped_entity_name hold <<>> for None and <<v>> for the value v;
\* name_change is None or the NameChange built from the record.
MappingResult(original_entity, id, name, confidence, detected, name_change) ==
  [original_entity |-> original_entity, mapped_entity_id |-> id,
   mapped_entity_name |-> name, confidence |-> confidence,
   name_change_detected |-> detected, name_change |-> name_change]

\* NameChange(previous_name=..., current_name=...) of a name-change record.
NameChange(record) ==
  [previous_name |-> record.previous_name, current_name |-> record.current_name]

\* isinstance(entity, Entity): true of every record.
IsEntity(entity) == entity.kind \in {"company", "person"}

\* isinstance(entity, CompanyEntity)
IsCompanyEntity(entity) == entity.kind = "company"

\* The MappingResult built from matches[0].
MappedTo(entity, best_match) ==
  MappingResult(entity, <<best_match.entity.id>>, <<best_match.entity.name>>,
                best_match.score, best_match.name_change # None,
                IF best_match.name_change # None
                THEN NameChange(best_match.name_change) ELSE None)

\* map_entity taking the last of the matches instead of matches[0].
MapMatchesLast(entity, matches) ==
  IF matches = <<>>
  THEN MappingResult(entity, <<>>, <<>>, Zero, FALSE, None)
  ELSE MappedTo(entity, matches[Len(matches)])

\* map_entity after search_by_name returned matches.
MapMatches(entity, matches) ==
  IF matches = <<>>
  THEN MappingResult(entity, <<>>, <<>>, Zero, FALSE, None)
  ELSE MappedTo(entity, matches[1])

\* map_entity searching at match_threshold whatever enable_fuzzy_matching says.
map_entity_always_fuzzy(entity_list, changes, match_threshold, enable_fuzzy_matching, entity) ==
  IF ~IsCompanyEntity(entity)
  THEN MappingResult(entity, <<>>, <<>>, Zero, FALSE, None)
  ELSE Strict2(MapMatches, entity,
               search_by_name(entity_list, changes, entity.name, match_threshold))

\* EntityMapper(database, match_threshold, enable_fuzzy_matching).map_entity(entity)
map_entity(entity_list, changes, match_threshold, enable_fuzzy_matching, entity) ==
  IF ~IsCompanyEntity(entity)
  THEN MappingResult(entity, <<>>, <<>>, Zero, FALSE, None)
  ELSE Strict2(MapMatches, entity,
               search_by_name(entity_list, changes, entity.name,
                              IF enable_fuzzy_matching THEN match_threshold ELSE One))


\* The names map_entity passes to search_by_name for the records of a batch,
\* in the order of the calls: the names of the CompanyEntity records.
SearchCalls(batch) ==
  FoldRange(LAMBDA acc, i : IF IsCompanyEntity(batch[i]) THEN Append(acc, batch[i].name)
                            ELSE acc,
            <<>>, 1, Len(batch))

(***************************************************************************)
(* EntityMapper.map_entities                                               *)
(***************************************************************************)
\* map_entities that maps each record of the batch once, at its first place.
map_entities_once(entity_list, changes, match_threshold, enable_fuzzy_matching, batch) ==
  FoldRange(LAMBDA results, i :
              IF \E j \in 1..(i - 1) : batch[j] = batch[i] THEN results
              ELSE Append(results, map_entity(entity_list, changes, match_threshold,
                                              enable_fuzzy_matching, batch[i])),
            <<>>, 1, Len(batch))

\* EntityMapper(database, match_threshold, enable_fuzzy_matching).map_entities(batch)
map_entities(entity_list, changes, match_threshold, enable_fuzzy_matching, batch) ==
  FoldRange(LAMBDA results, i :
              Append(results, map_entity(entity_list, changes, match_threshold,
                                         enable_fuzzy_matching, batch[i])),
            <<>>, 1, Len(batch))

(***************************************************************************)
(* Registries, queries and thresholds of the model                         *)
(***************************************************************************)
MaxEntities == 2
MaxChanges == 2

N_AbCo == <<"A", "b", " ", "C", "o">>
N_abco == <<"a", "b", " ", "c", "o">>
N_AC == <<"A", "C">>
N_X == <<"X">>
N_Ab == <<"A", "b">>
N_AbSp == <<"A", "b", " ">>
N_Gone == <<"G", "o", "n", "e">>
N_Q == <<"Q">>
Q_ABCO == <<"A", "B", " ", "C", "O">>
Q_ac == <<"a", "c">>
Q_Empty == <<>>
Q_Blank == <<" ">>
Q_AbCoSp == <<"A", "b", " ", "C", "o", " ">>
Q_stc == <<"s", "t", "c">>
Q_STC == <<"S", "T", "C">>
Q_Steves == <<"S", "t", "e", "v", "e", "'", "s", " ", "T", "r", "u", "c", "k", "i", "n", "g">>
Q_SteveCo == <<"S", "t", "e", "v", "e", " ", "T", "r", "u", "c", "k", "i", "n", "g", " ", "C", "o", ".">>

\* Entities a registry of the model is drawn from.  The second shares the
\* first's name up to letter case; the third carries that name, and a
\* previous name of the records below, as aliases.
EntityPool ==
  { [id |-> "e1", name |-> N_AbCo, aliases |-> <<N_AC>>],
    [id |-> "e2", name |-> N_abco, aliases |-> <<>>],
    [id |-> "e3", name |-> N_X, aliases |-> <<N_AbCo, N_Ab>>] }

\* Name-change records a registry of the model is drawn from.  The third
\* names an entity no registry holds; the fourth has a one-character name.
ChangePool ==
  { [previous_name |-> N_Ab, current_name |-> N_AbCo, entity_id |-> "e1"],
    [previous_name |-> N_AbSp, current_name |-> N_abco, entity_id |-> "e2"],
    [previous_name |-> N_Ab, current_name |-> N_Gone, entity_id |-> "e9"],
    [previous_name |-> N_Q, current_name |-> N_AbCo, entity_id |-> "e1"] }

\* The lists of at most n distinct elements of S.
ListsOf(S, n) ==
  { l \in UNION { [1..k -> S] : k \in 0..n } :
      \A i, j \in 1..Len(l) : i # j => l[i] # l[j] }

\* EntityDatabase._create_mock_data: the ids, names and aliases of the seed.
SeedEntities ==
  <<
    [id |-> "comp001",
     name |-> <<"B", "e", "n", "n", "e", "t", "t", " ", "T", "r", "u", "c", "k", " ", "T", "r", "a", "n", "s", "p", "o", "r", "t", ",", " ", "L", "L", "C">>,
     aliases |-> <<<<"B", "e", "n", "n", "e", "t", "t">>,
                   <<"B", "T", "T">>>>],
    [id |-> "comp002",
     name |-> <<"R", "o", "a", "d", " ", "M", "a", "s", "t", "e", "r", "s", " ", "T", "r", "a", "n", "s", "p", "o", "r", "t", "a", "t", "i", "o", "n">>,
     aliases |-> <<<<"R", "o", "a", "d", " ", "M", "a", "s", "t", "e", "r", "s">>,
                   <<"R", "M", " ", "T", "r", "a", "n", "s", "p", "o", "r", "t">>>>],
    [id |-> "comp003",
     name |-> <<"B", "e", "n", "n", "e", "t", "t", " ", "I", "n", "t", "e", "r", "n", "a", "t", "i", "o", "n", "a", "l", " ", "L", "o", "g", "i", "s", "t", "i", "c", "s", ",", " ", "L", "L", "C">>,
     aliases |-> <<<<"B", "I", "L">>,
                   <<"B", "e", "n", "n", "e", "t", "t", " ", "I", "n", "t", "e", "r", "n", "a", "t", "i", "o", "n", "a", "l">>>>],
    [id |-> "comp004",
     name |-> <<"S", "t", "e", "v", "e", " ", "T", "r", "u", "c", "k", "i", "n", "g", " ", "C", "o", "m", "p", "a", "n", "y">>,
     aliases |-> <<<<"S", "T", "C">>>>],
    [id |-> "comp005",
     name |-> <<"G", "T", " ", "E", "x", "p", "r", "e", "s", "s", " ", "I", "n", "c", "o", "r", "p", "o", "r", "a", "t", "e", "d">>,
     aliases |-> <<<<"G", "T", " ", "E", "x", "p", "r", "e", "s", "s">>,
                   <<"G", "T", "E">>>>],
    [id |-> "comp006",
     name |-> <<"L", "i", "n", "b", "i", "s", " ", "L", "o", "g", "i", "s", "t", "i", "c", "s", " ", "S", "o", "f", "t", "w", "a", "r", "e">>,
     aliases |-> <<<<"L", "i", "n", "b", "i", "s">>,
                   <<"L", "L", "S">>>>]
  >>

SeedNameChanges ==
  <<
    [previous_name |-> <<"S", "t", "e", "v", "e", "'", "s", " ", "T", "r", "u", "c", "k", "i", "n", "g">>,
     current_name |-> <<"S", "t", "e", "v", "e", " ", "T", "r", "u", "c", "k", "i", "n", "g", " ", "C", "o", "m", "p", "a", "n", "y">>,
     entity_id |-> "comp004"],
    [previous_name |-> <<"G", "T", " ", "X", "P", "R", "E", "S", "S", " ", "I", "N", "C">>,
     current_name |-> <<"G", "T", " ", "E", "x", "p", "r", "e", "s", "s", " ", "I", "n", "c", "o", "r", "p", "o", "r", "a", "t", "e", "d">>,
     entity_id |-> "comp005"],
    [previous_name |-> <<"B", "e", "n", "n", "e", "t", "t", " ", "L", "o", "g", "i", "s", "t", "i", "c", "s", " ", "I", "n", "t", "e", "r", "n", "a", "t", "i", "o", "n", "a", "l">>,
     current_name |-> <<"B", "e", "n", "n", "e", "t", "t", " ", "I", "n", "t", "e", "r", "n", "a", "t", "i", "o", "n", "a", "l", " ", "L", "o", "g", "i", "s", "t", "i", "c", "s", ",", " ", "L", "L", "C">>,
     entity_id |-> "comp003"]
  >>

\* The registries of the model: the drawn ones and the seed.
Registries ==
  { [entities |-> es, name_changes |-> cs] :
      es \in ListsOf(EntityPool, MaxEntities), cs \in ListsOf(ChangePool, MaxChanges) }
  \cup { [entities |-> SeedEntities, name_changes |-> SeedNameChanges] }

\* Candidate names asked of a drawn registry, and those asked of the seed.
PoolQueries ==
  { N_AbCo, N_abco, Q_ABCO, Q_ac, N_Ab, N_Q, Q_Empty, Q_Blank, Q_AbCoSp }

SeedQueries == { Q_STC, Q_stc, Q_Steves, Q_Empty }

QueriesFor(entity_list) ==
  IF entity_list = SeedEntities THEN SeedQueries ELSE PoolQueries

\* The names multi_stage_entity_matching is called with when no embedding
\* provider is available.
ResolutionQueriesFor(entity_list) ==
  IF entity_list = SeedEntities THEN SeedQueries \cup { Q_SteveCo } ELSE PoolQueries

Thresholds == { Zero, <<1, 10>>, <<7, 10>>, <<17, 20>> }

\* The thresholds of the calls that may go on to stage 4, where the scores are
\* 0.0 or 1.0: 0.7 is the default of multi_stage_entity_matching.
StageThresholds == { Zero, <<1, 10>>, <<7, 10>> }

\* The kinds of candidate records: CompanyEntity and one other Entity class.
Kinds == { "company", "person" }

\* The batches map_entities is given: at most MaxBatch records, repetitions
\* allowed.
MaxBatch == 2

PoolRecords == { [kind |-> "company", name |-> N_Ab], [kind |-> "person", name |-> N_AbCo] }

SeedRecords == { [kind |-> "company", name |-> Q_stc], [kind |-> "company", name |-> Q_Steves] }

BatchesFor(entity_list) ==
  UNION { [1..k -> IF entity_list = SeedEntities THEN SeedRecords ELSE PoolRecords] :
            k \in 0..MaxBatch }

\* The match_threshold of the mappers of the map_entity calls, and of those of
\* the map_entities calls.
MapThresholds == { Zero, <<17, 20>> }

BatchThresholds == { <<1, 10>>, <<17, 20>> }


(***************************************************************************)
(* EntityDatabase.__init__, load_from_file                                 *)
(***************************************************************************)
\* The Python types of the two collections of a registry; TypesOfLists are
\* those of a registry whose collections are both lists.
TypesOfLists == [entities |-> "list", name_changes |-> "list"]

\* A registry: the two collections and their types.  A collection that is not
\* a list has no items.
RegistryOf(entity_list, changes, types) ==
  [entities |-> entity_list, name_changes |-> changes, types |-> types]

\* _create_mock_data()
create_mock_data == RegistryOf(SeedEntities, SeedNameChanges, TypesOfLists)

\* data.get(key, []) for a JSON object whose member is absent, null or an
\* array: the value and its Python type.
GetOrEmptyList(member) ==
  IF member.type = "absent" THEN [type |-> "list", items |-> <<>>]
  ELSE IF member.type = "null" THEN [type |-> "NoneType", items |-> <<>>]
  ELSE [type |-> "list", items |-> member.items]

\* The registry after the two assignments of load_from_file.
LoadedRegistry(loaded_entities, loaded_changes) ==
  RegistryOf(loaded_entities.items, loaded_changes.items,
             [entities |-> loaded_entities.type, name_changes |-> loaded_changes.type])

\* load_from_file(file_path), snapshot being what is found at the path: no
\* file ("missing": open raises), a file that is no JSON ("invalid":
\* json.load raises), a JSON array ("array": data.get raises), or a JSON
\* object with its members.
load_from_file(snapshot) ==
  IF snapshot.status \in {"missing", "invalid", "array"}
  THEN create_mock_data
  ELSE Strict2(LoadedRegistry, GetOrEmptyList(snapshot.entities),
               GetOrEmptyList(snapshot.name_changes))

\* EntityDatabase(db_path); status "none" is a call without a path.
EntityDatabase(snapshot) ==
  IF snapshot.status = "none" THEN create_mock_data ELSE load_from_file(snapshot)

(***************************************************************************)
(* Exceptions of the resolution functions on a loaded registry             *)
(***************************************************************************)
\* entity["name"] raises KeyError for an entity without the key.
HasName(entity) == "name" \in DOMAIN entity

\* The exception the loop of the exact pass raises, <<>> if none: TypeError
\* when the collection is no list, KeyError at the first entity without name
\* (the loop visits every entity).
ExactPassRaises(types, entity_list) ==
  IF types.entities # "list" THEN <<"TypeError">>
  ELSE IF \E i \in 1..Len(entity_list) : ~HasName(entity_list[i]) THEN <<"KeyError">>
  ELSE <<>>

\* The exception the loop over the name-change records raises after an exact
\* pass that found exact_matches.
ChangePassRaises(types, exact_matches) ==
  IF exact_matches = <<>> /\ types.name_changes # "list" THEN <<"TypeError">> ELSE <<>>

\* The exception search_by_name(name, ...) and multi_stage_entity_matching
\* (query with that name, ...) raise on the registry, <<>> if they return.
ResolutionRaises(types, entity_list, name) ==
  IF ExactPassRaises(types, entity_list) # <<>> THEN ExactPassRaises(types, entity_list)
  ELSE Strict2(ChangePassRaises, types, ExactMatches(entity_list, name))

\* The stages multi_stage_entity_matching has entered when it raises: the
\* exact pass raises in stage 1, the loop over the records in stage 2.
StagesEntered(types, entity_list) ==
  IF ExactPassRaises(types, entity_list) # <<>> THEN <<"exact">>
  ELSE <<"exact", "name_change">>

\* The exception map_entity(entity) raises.
MapEntityRaises(types, entity_list, entity) ==
  IF ~IsCompanyEntity(entity) THEN <<>>
  ELSE ResolutionRaises(types, entity_list, entity.name)

\* The exception map_entities(batch) raises: that of the first record whose
\* map_entity call raises.
MapEntitiesRaises(types, entity_list, batch) ==
  FoldRange(LAMBDA exc, i : IF exc # <<>> THEN exc
                            ELSE MapEntityRaises(types, entity_list, batch[i]),
            <<>>, 1, Len(batch))

\* The records map_entities(batch) passes to map_entity: the loop stops at the
\* first record whose map_entity call raises.
RecordsReached(types, entity_list, batch) ==
  IF \E i \in 1..Len(batch) : MapEntityRaises(types, entity_list, batch[i]) # <<>>
  THEN SubSeq(batch, 1,
              CHOOSE i \in 1..Len(batch) :
                /\ MapEntityRaises(types, entity_list, batch[i]) # <<>>
                /\ \A j \in 1..(i - 1) : MapEntityRaises(types, entity_list, batch[j]) = <<>>)
  ELSE batch

(***************************************************************************)
(* Snapshots                                                               *)
(***************************************************************************)
\* A member of the JSON object of a snapshot: absent, null, or an array.
AbsentMember == [type |-> "absent", items |-> <<>>]
NullMember == [type |-> "null", items |-> <<>>]
ArrayMember(items) == [type |-> "list", items |-> items]

\* The database was not built from a path.
NoSnapshot == [status |-> "none", entities |-> AbsentMember, name_changes |-> AbsentMember]

\* At most MaxLoaded records in a collection of a snapshot.
MaxLoaded == 2

\* Entity records of snapshots: one with a name and no aliases, one without
\* a name.
LoadEntityPool ==
  { [id |-> "e1", name |-> N_AbCo],
    [id |-> "e4", aliases |-> <<>>] }

\* Name-change records of snapshots, without the optional fields.
LoadChangePool ==
  { [previous_name |-> N_Ab, current_name |-> N_AbCo, entity_id |-> "e1"] }

\* The lists of at most n elements of S.
SeqsOf(S, n) == UNION { [1..k -> S] : k \in 0..n }

MembersOf(S) == { AbsentMember, NullMember } \cup { ArrayMember(l) : l \in SeqsOf(S, MaxLoaded) }

\* What a db_path can lead to: no file, a file that is no JSON, a JSON array,
\* a JSON object.
Snapshots ==
  { [status |-> st, entities |-> AbsentMember, name_changes |-> AbsentMember] :
      st \in {"none", "missing", "invalid", "array"} }
  \cup { [status |-> "object", entities |-> es, name_changes |-> cs] :
           es \in MembersOf(LoadEntityPool), cs \in MembersOf(LoadChangePool) }

\* What load_from_file can find at a path.
PathSnapshots == { snap \in Snapshots : snap.status # "none" }

\* Candidate names, thresholds and records of the calls on a loaded registry.
LoadQueries == { N_AbCo, N_Ab, N_Q }

LoadThresholds == { <<7, 10>> }

LoadRecords == { [kind |-> "company", name |-> N_Q], [kind |-> "person", name |-> N_AbCo] }

LoadBatches == SeqsOf(LoadRecords, MaxBatch)
(***************************************************************************)
(* State                                                                   *)
(***************************************************************************)
VARIABLES
  snapshot,          \* what is found at the path the database was last loaded from
  entities,          \* EntityDatabase.entities
  name_changes,      \* EntityDatabase.name_changes
  registry_types,    \* the Python types of these two collections
  OPENAI_AVAILABLE,  \* the module flag set on import
  pc,                \* "idle", "semantic" (inside stage 4), "done", "mapped",
                     \* "searched", "batch"
  query_name,        \* query_entity["name"] of the running call
  threshold,         \* its threshold
  stages,            \* the stages the call has run so far
  scores,            \* find_best_match: the (candidate, score) pairs computed so far
  failed,            \* stage 4: whether the provider failed while candidate i was scored
  provider_calls,    \* calls of the embedding provider made by the call
  emb1,              \* emb1 of the semantic_similarity call that waits for emb2
  result,            \* what multi_stage_entity_matching returned
  map_args,          \* the arguments of the last map_entity call
  map_result,        \* what it returned
  search_calls,      \* the names the map_entity and map_entities calls passed to search_by_name
  search_args,       \* the arguments of the last search_by_name call
  search_result,     \* what it returned
  batch_args,        \* the arguments of the last map_entities call
  batch_results,     \* what it returned
  raised,            \* the exception the last call raised, <<>> if it returned
  s1,                \* the strings of the similarity calls under study
  s2,
  forward,           \* what weighted_similarity(s1, s2) returned, if called
  backward,          \* what weighted_similarity(s2, s1) returned, if called
  query,             \* the arguments of the find_best_match calls under study
  candidates,
  method,
  call_scores,       \* the scores list of each find_best_match call that returned
  best_match,        \* what each of these calls returned
  embeddings_cache,  \* the dict the callers of semantic_similarity share
  calls,             \* the semantic_similarity calls under study, each with its locals
  tokens             \* what tokenize returned for s1, then for s2, if called

vars ==
  <<snapshot, entities, name_changes, registry_types, OPENAI_AVAILABLE, pc, query_name, threshold, stages,
    scores, failed, provider_calls, emb1, result, map_args, map_result, search_calls,
    search_args, search_result, batch_args, batch_results, raised, s1, s2, forward, backward,
    query, candidates, method, call_scores, best_match, embeddings_cache, calls, tokens>>

\* The variables of a multi_stage_entity_matching call.
staged == <<query_name, threshold, stages, scores, failed, provider_calls, emb1, result>>

\* The variables of a map_entity call, of a search_by_name call and of a
\* map_entities call.
mapping == <<map_args, map_result>>

searching == <<search_args, search_result>>

batching == <<batch_args, batch_results>>

\* The variables of one call of the resolution functions.
resolution == <<pc, staged, mapping, search_calls, searching, batching, raised>>

\* The variables of the similarity calls.
similarity == <<s1, s2, forward, backward>>

\* The variables of the find_best_match calls.
matching == <<query, candidates, method, call_scores, best_match>>

\* The variables of the calls of single functions.
\* The variables of the semantic_similarity calls.
caching == <<embeddings_cache, calls>>

\* The variables of the tokenize calls, with s1 and s2.
tokenizing == <<tokens>>

functions == <<similarity, matching, caching, tokenizing>>

registry == <<snapshot, entities, name_changes, registry_types, OPENAI_AVAILABLE>>

\* No call of the resolution functions is running or has returned.
NoResolution ==
  /\ pc = "idle"
  /\ query_name = <<>>
  /\ threshold = Zero
  /\ stages = <<>>
  /\ scores = <<>>
  /\ failed = <<>>
  /\ provider_calls = 0
  /\ emb1 = None
  /\ result = None
  /\ map_args = None
  /\ map_result = None
  /\ search_calls = <<>>
  /\ search_args = None
  /\ search_result = None
  /\ batch_args = None
  /\ batch_results = None
  /\ raised = <<>>

\* No find_best_match call is under study.
NoMatching ==
  /\ query = <<>>
  /\ candidates = <<>>
  /\ method = "weighted"
  /\ call_scores = <<>>
  /\ best_match = <<>>

\* No semantic_similarity call is under study.
NoCaching ==
  /\ embeddings_cache = NoCache
  /\ calls = <<>>

\* tokenize was not called.
NoTokenizing == tokens = <<>>

\* No similarity call is under study.
NoSimilarity ==
  /\ s1 = <<>>
  /\ s2 = <<>>
  /\ forward = None
  /\ backward = None

Init ==
  /\ snapshot = NoSnapshot
  /\ \E r \in Registries :
       /\ entities = r.entities
       /\ name_changes = r.name_changes
  /\ registry_types = TypesOfLists
  /\ OPENAI_AVAILABLE \in BOOLEAN
  /\ NoResolution
  /\ NoSimilarity
  /\ NoMatching
  /\ NoCaching
  /\ NoTokenizing

\* multi_stage_entity_matching(query_entity, entities, name_changes, t) up to
\* the end of stage 3, and to its return when OPENAI_AVAILABLE is false.
MultiStageEntityMatching(q, t) ==
  /\ pc = "idle"
  /\ query_name' = q
  /\ threshold' = t
  /\ scores' = <<>>
  /\ failed' = <<>>
  /\ provider_calls' = 0
  /\ emb1' = None
  /\ raised' = ResolutionRaises(registry_types, entities, q)
  /\ IF ResolutionRaises(registry_types, entities, q) # <<>>
     THEN /\ stages' = StagesEntered(registry_types, entities)
          /\ result' = None
          /\ pc' = "raised"
     ELSE \E lexical \in {LexicalStages(q, entities, name_changes, t)} :
            IF lexical.result # None
            THEN /\ stages' = lexical.stages
                 /\ result' = lexical.result
                 /\ pc' = "done"
            ELSE IF OPENAI_AVAILABLE
            THEN /\ stages' = Append(lexical.stages, "semantic")
                 /\ result' = None
                 /\ pc' = "semantic"
            ELSE /\ stages' = lexical.stages
                 /\ result' = NoMatchResult
                 /\ pc' = "done"
  /\ UNCHANGED <<registry, mapping, search_calls, searching, batching, functions>>

\* Stage 4, inside find_best_match(..., "semantic"): the call
\* semantic_similarity(query, candidate) for the next candidate name starts;
\* its dict is new and empty, so s1 is requested from the provider, which
\* answers o1.
SemanticRequest(o1) ==
  /\ pc = "semantic"
  /\ Len(scores) < Len(entities)
  /\ emb1 = None
  /\ emb1' = get_embedding(o1)
  /\ provider_calls' = provider_calls + 1
  /\ failed' = Append(failed, o1 = ProviderError)
  /\ UNCHANGED <<registry, pc, query_name, threshold, stages, scores, result, mapping,
                 search_calls, searching, batching, raised, functions>>

\* "if s2 in cache: emb2 = cache[s2] / else: emb2 = get_embedding(s2)" with
\* the dict that holds s1 only.
SecondEmbedding(str1, str2, first, o2) ==
  IF str2 = str1 THEN first ELSE get_embedding(o2)

\* The same call goes on: s2 is looked up and, unless it is s1, requested from
\* the provider, which answers o2; the cosine is the candidate's score.
SemanticScore(o2) ==
  /\ pc = "semantic"
  /\ emb1 # None
  /\ scores' = Append(scores,
                      <<entities[Len(scores) + 1].name,
                        cosine_similarity(emb1,
                                          SecondEmbedding(query_name,
                                                          entities[Len(scores) + 1].name,
                                                          emb1, o2))>>)
  /\ provider_calls' = provider_calls
                         + IF entities[Len(scores) + 1].name = query_name THEN 0 ELSE 1
  /\ failed' = [failed EXCEPT ![Len(failed)] =
                  @ \/ (entities[Len(scores) + 1].name # query_name /\ o2 = ProviderError)]
  /\ emb1' = None
  /\ UNCHANGED <<registry, pc, query_name, threshold, stages, result, mapping, search_calls,
                 searching, batching, raised, functions>>

\* Stage 4 after the last candidate: the best score decides, and the call returns.
SemanticReturn ==
  /\ pc = "semantic"
  /\ Len(scores) = Len(entities)
  /\ result' = SemanticStage(entities, scores, threshold)
  /\ pc' = "done"
  /\ UNCHANGED <<registry, query_name, threshold, stages, scores, failed, provider_calls,
                 emb1, mapping, search_calls, searching, batching, raised, functions>>

\* SearchByName leaving the entities of the registry in the reverse order.
SearchByNameReordering(n, t) ==
  /\ pc = "idle"
  /\ search_args' = [name |-> n, threshold |-> t]
  /\ raised' = ResolutionRaises(registry_types, entities, n)
  /\ IF ResolutionRaises(registry_types, entities, n) # <<>>
     THEN /\ search_result' = None
          /\ pc' = "raised"
     ELSE /\ search_result' = search_by_name(entities, name_changes, n, t)
          /\ pc' = "searched"
  /\ entities' = [i \in 1..Len(entities) |-> entities[Len(entities) + 1 - i]]
  /\ UNCHANGED <<snapshot, name_changes, registry_types, OPENAI_AVAILABLE, staged, mapping, search_calls, batching,
                 functions>>

\* EntityDatabase.search_by_name(n, t)
SearchByName(n, t) ==
  /\ pc = "idle"
  /\ search_args' = [name |-> n, threshold |-> t]
  /\ raised' = ResolutionRaises(registry_types, entities, n)
  /\ IF ResolutionRaises(registry_types, entities, n) # <<>>
     THEN /\ search_result' = None
          /\ pc' = "raised"
     ELSE /\ search_result' = search_by_name(entities, name_changes, n, t)
          /\ pc' = "searched"
  /\ UNCHANGED <<registry, staged, mapping, search_calls, batching, functions>>

\* EntityMapper(database, mt, fuzzy).map_entity(entity of kind k and name n)
MapEntity(k, n, mt, fuzzy) ==
  /\ pc = "idle"
  /\ map_args' = [kind |-> k, name |-> n, match_threshold |-> mt,
                  enable_fuzzy_matching |-> fuzzy]
  /\ search_calls' = SearchCalls(<<[kind |-> k, name |-> n]>>)
  /\ raised' = MapEntityRaises(registry_types, entities, [kind |-> k, name |-> n])
  /\ IF MapEntityRaises(registry_types, entities, [kind |-> k, name |-> n]) # <<>>
     THEN /\ map_result' = None
          /\ pc' = "raised"
     ELSE /\ map_result' = map_entity(entities, name_changes, mt, fuzzy,
                                      [kind |-> k, name |-> n])
          /\ pc' = "mapped"
  /\ UNCHANGED <<registry, staged, searching, batching, functions>>

\* EntityMapper(database, mt, fuzzy).map_entities(batch)
MapEntities(batch, mt, fuzzy) ==
  /\ pc = "idle"
  /\ batch_args' = [entities |-> batch, match_threshold |-> mt,
                    enable_fuzzy_matching |-> fuzzy]
  /\ search_calls' = SearchCalls(RecordsReached(registry_types, entities, batch))
  /\ raised' = MapEntitiesRaises(registry_types, entities, batch)
  /\ IF MapEntitiesRaises(registry_types, entities, batch) # <<>>
     THEN /\ batch_results' = None
          /\ pc' = "raised"
     ELSE /\ batch_results' = map_entities(entities, name_changes, mt, fuzzy, batch)
          /\ pc' = "batch"
  /\ UNCHANGED <<registry, staged, mapping, searching, functions>>

\* The caller takes the result; the next call starts from a clean slate.
Return ==
  /\ pc \in {"done", "mapped", "searched", "batch", "raised"}
  /\ pc' = "idle"
  /\ query_name' = <<>>
  /\ threshold' = Zero
  /\ stages' = <<>>
  /\ scores' = <<>>
  /\ failed' = <<>>
  /\ provider_calls' = 0
  /\ emb1' = None
  /\ result' = None
  /\ map_args' = None
  /\ map_result' = None
  /\ search_calls' = <<>>
  /\ search_args' = None
  /\ search_result' = None
  /\ batch_args' = None
  /\ batch_results' = None
  /\ raised' = <<>>
  /\ UNCHANGED <<registry, functions>>

Next ==
  \/ \E q \in QueriesFor(entities), t \in StageThresholds : MultiStageEntityMatching(q, t)
  \/ \E o1 \in ProviderOutcomes : SemanticRequest(o1)
  \/ \E o2 \in ProviderOutcomes : SemanticScore(o2)
  \/ SemanticReturn
  \/ \E n \in QueriesFor(entities), t \in Thresholds : SearchByName(n, t)
  \/ \E k \in Kinds, n \in QueriesFor(entities), mt \in MapThresholds, fuzzy \in BOOLEAN :
       MapEntity(k, n, mt, fuzzy)
  \/ \E batch \in BatchesFor(entities), mt \in BatchThresholds, fuzzy \in BOOLEAN :
       MapEntities(batch, mt, fuzzy)
  \/ Return

Spec == Init /\ [][Next]_vars

(***************************************************************************)
(* The registry built from a snapshot, and the resolution calls on it      *)
(***************************************************************************)
\* EntityDatabase.__init__ has run up to `self.name_changes = []`.
LoadInit ==
  /\ snapshot \in Snapshots
  /\ entities = <<>>
  /\ name_changes = <<>>
  /\ registry_types = TypesOfLists
  /\ OPENAI_AVAILABLE = FALSE
  /\ pc = "new"
  /\ query_name = <<>>
  /\ threshold = Zero
  /\ stages = <<>>
  /\ scores = <<>>
  /\ failed = <<>>
  /\ provider_calls = 0
  /\ emb1 = None
  /\ result = None
  /\ map_args = None
  /\ map_result = None
  /\ search_calls = <<>>
  /\ search_args = None
  /\ search_result = None
  /\ batch_args = None
  /\ batch_results = None
  /\ raised = <<>>
  /\ NoSimilarity
  /\ NoMatching
  /\ NoCaching
  /\ NoTokenizing

\* The rest of EntityDatabase.__init__(db_path).
Construct ==
  /\ pc = "new"
  /\ \E db \in {EntityDatabase(snapshot)} :
       /\ entities' = db.entities
       /\ name_changes' = db.name_changes
       /\ registry_types' = db.types
  /\ pc' = "idle"
  /\ UNCHANGED <<snapshot, OPENAI_AVAILABLE, staged, mapping, search_calls, searching,
                 batching, raised, functions>>

\* db.load_from_file(file_path) on a database in use, snap being what is found
\* at the path.
LoadFromFile(snap) ==
  /\ pc = "idle"
  /\ snapshot' = snap
  /\ \E db \in {load_from_file(snap)} :
       /\ entities' = db.entities
       /\ name_changes' = db.name_changes
       /\ registry_types' = db.types
  /\ UNCHANGED <<pc, OPENAI_AVAILABLE, staged, mapping, search_calls, searching,
                 batching, raised, functions>>

LoadNext ==
  \/ Construct
  \/ \E snap \in PathSnapshots : LoadFromFile(snap)
  \/ \E q \in LoadQueries, t \in LoadThresholds : MultiStageEntityMatching(q, t)
  \/ \E n \in LoadQueries, t \in LoadThresholds : SearchByName(n, t)
  \/ \E k \in Kinds, n \in LoadQueries, mt \in LoadThresholds, fuzzy \in BOOLEAN :
       MapEntity(k, n, mt, fuzzy)
  \/ \E batch \in LoadBatches, mt \in LoadThresholds, fuzzy \in BOOLEAN :
       MapEntities(batch, mt, fuzzy)
  \/ Return

LoadSpec == LoadInit /\ [][LoadNext]_vars

(***************************************************************************)
(* The similarity engine on its own: weighted_similarity called on a pair  *)
(* of strings, in both orders                                              *)
(***************************************************************************)
MaxLen == 3

Alphabet == { "a", "B", " " }

\* Strings beyond the alphabet: stop words, punctuation, ampersands, names.
ExtraStrings ==
  { <<"t", "h", "e">>, <<"T", "h", "e">>, <<"!">>, <<".">>, <<"?", "!">>, <<"S", "&", "P">>,
    <<"a", "b", " ", "c", "d">>, <<"c", "d", " ", "a", "b">>, <<"a", "b", " ", "a", "b">>,
    N_AbCo, Q_STC }

Strings == UNION { [1..n -> Alphabet] : n \in 0..MaxLen } \cup ExtraStrings

SimInit ==
  /\ snapshot = NoSnapshot
  /\ entities = <<>>
  /\ name_changes = <<>>
  /\ registry_types = TypesOfLists
  /\ OPENAI_AVAILABLE = FALSE
  /\ NoResolution
  /\ s1 \in Strings
  /\ s2 \in Strings
  /\ forward = None
  /\ backward = None
  /\ NoMatching
  /\ NoCaching
  /\ NoTokenizing

\* weighted_similarity(s1, s2)
Forward ==
  /\ forward = None
  /\ forward' = weighted_similarity(s1, s2)
  /\ UNCHANGED <<registry, resolution, s1, s2, backward, matching, caching, tokenizing>>

\* weighted_similarity(s2, s1)
Backward ==
  /\ backward = None
  /\ backward' = weighted_similarity(s2, s1)
  /\ UNCHANGED <<registry, resolution, s1, s2, forward, matching, caching, tokenizing>>

SimNext == Forward \/ Backward

SimSpec == SimInit /\ [][SimNext]_vars


(***************************************************************************)
(* find_best_match on its own: repeated calls with the same arguments      *)
(***************************************************************************)
MaxCandidates == 2
MaxCalls == 2

\* Candidate names: the first two are equal up to letter case.
CandidatePool == { N_AbCo, N_abco, N_X }

MatchQueries == { N_AbCo, N_X, Q_AbCoSp, Q_Empty }

\* "other" stands for any method name find_best_match does not know.
Methods == { "weighted", "token_set", "semantic", "other" }

MatchInit ==
  /\ snapshot = NoSnapshot
  /\ entities = <<>>
  /\ name_changes = <<>>
  /\ registry_types = TypesOfLists
  /\ OPENAI_AVAILABLE \in BOOLEAN
  /\ pc = "idle"
  /\ query_name = <<>>
  /\ threshold \in Thresholds
  /\ stages = <<>>
  /\ scores = <<>>
  /\ failed = <<>>
  /\ provider_calls = 0
  /\ emb1 = None
  /\ result = None
  /\ map_args = None
  /\ map_result = None
  /\ search_calls = <<>>
  /\ search_args = None
  /\ search_result = None
  /\ batch_args = None
  /\ batch_results = None
  /\ raised = <<>>
  /\ NoSimilarity
  /\ query \in MatchQueries
  /\ candidates \in ListsOf(CandidatePool, MaxCandidates)
  /\ method \in Methods
  /\ call_scores = <<>>
  /\ best_match = <<>>
  /\ NoCaching
  /\ NoTokenizing

\* The call under study asks the provider: method "semantic" with the package
\* present, on a list with candidates.
AsksProvider == method = "semantic" /\ OPENAI_AVAILABLE /\ candidates # <<>>

\* find_best_match(query, candidates, threshold, method), once more, when the
\* call asks no provider.
FindBestMatch ==
  /\ Len(best_match) < MaxCalls
  /\ ~AsksProvider
  /\ \E computed \in {ScoresWithoutProvider(query, candidates, method)} :
       /\ call_scores' = Append(call_scores, computed)
       /\ best_match' = Append(best_match, BestAboveThreshold(computed, threshold))
  /\ UNCHANGED <<registry, resolution, similarity, query, candidates, method, caching,
                 tokenizing>>

\* Inside find_best_match(..., "semantic"): semantic_similarity(query,
\* candidate) starts for the next candidate and requests s1 from the provider,
\* which answers o1.
MatchRequest(o1) ==
  /\ Len(best_match) < MaxCalls
  /\ AsksProvider
  /\ Len(scores) < Len(candidates)
  /\ emb1 = None
  /\ emb1' = get_embedding(o1)
  /\ provider_calls' = provider_calls + 1
  /\ UNCHANGED <<registry, pc, query_name, threshold, stages, scores, failed, result,
                 mapping, search_calls, searching, batching, raised, similarity, matching,
                 caching, tokenizing>>

\* The same semantic_similarity call goes on: s2 is looked up and, unless it
\* is s1, requested from the provider, which answers o2; the cosine is the
\* candidate's score.
MatchScore(o2) ==
  /\ emb1 # None
  /\ scores' = Append(scores,
                      <<candidates[Len(scores) + 1],
                        cosine_similarity(emb1,
                                          SecondEmbedding(query, candidates[Len(scores) + 1],
                                                          emb1, o2))>>)
  /\ provider_calls' = provider_calls
                         + IF candidates[Len(scores) + 1] = query THEN 0 ELSE 1
  /\ emb1' = None
  /\ UNCHANGED <<registry, pc, query_name, threshold, stages, failed, result, mapping,
                 search_calls, searching, batching, raised, similarity, matching, caching,
                 tokenizing>>

\* The end of that find_best_match call: the best score decides.
MatchReturn ==
  /\ Len(best_match) < MaxCalls
  /\ AsksProvider
  /\ Len(scores) = Len(candidates)
  /\ call_scores' = Append(call_scores, scores)
  /\ best_match' = Append(best_match, BestAboveThreshold(scores, threshold))
  /\ scores' = <<>>
  /\ provider_calls' = 0
  /\ UNCHANGED <<registry, pc, query_name, threshold, stages, failed, emb1, result, mapping,
                 search_calls, searching, batching, raised, similarity, query, candidates,
                 method, caching, tokenizing>>

MatchNext ==
  \/ FindBestMatch
  \/ \E o1 \in ProviderOutcomes : MatchRequest(o1)
  \/ \E o2 \in ProviderOutcomes : MatchScore(o2)
  \/ MatchReturn

MatchSpec == MatchInit /\ [][MatchNext]_vars

(***************************************************************************)
(* The lexical resolution calls: the registry and the calls of             *)
(* multi_stage_entity_matching and map_entity without an embedding         *)
(* provider                                                                *)
(***************************************************************************)
\* The thresholds of these calls: those of the other calls, and one just
\* above 0.75.
LexicalThresholds == Thresholds \cup { <<19, 25>> }

LexicalInit ==
  /\ snapshot = NoSnapshot
  /\ \E r \in Registries :
       /\ entities = r.entities
       /\ name_changes = r.name_changes
  /\ registry_types = TypesOfLists
  /\ OPENAI_AVAILABLE = FALSE
  /\ NoResolution
  /\ NoSimilarity
  /\ NoMatching
  /\ NoCaching
  /\ NoTokenizing

LexicalNext ==
  \/ \E q \in ResolutionQueriesFor(entities), t \in LexicalThresholds : MultiStageEntityMatching(q, t)
  \/ \E k \in Kinds, n \in QueriesFor(entities), mt \in MapThresholds, fuzzy \in BOOLEAN :
       MapEntity(k, n, mt, fuzzy)
  \/ Return

LexicalSpec == LexicalInit /\ [][LexicalNext]_vars

(***************************************************************************)
(* semantic_similarity calls sharing the caller's embeddings cache, step   *)
(* by step                                                                 *)
(***************************************************************************)
\* At most MaxConcurrent calls run on one cache.
MaxConcurrent == 2

\* The strings of the calls, a string that none of them passes, and the
\* embedding the provider computes for each string.
CacheStrings == { N_X, N_Q }

EmbeddingOf(s) == IF s = N_X THEN <<1, 0>> ELSE IF s = N_Q THEN <<0, 1>> ELSE <<1, 1>>

\* What the provider answers to a request for string s: its embedding, or a
\* failure.
ProviderAnswer(s, succeeds) == IF succeeds THEN EmbeddingOf(s) ELSE ProviderError

\* The caches a caller passes: none, an empty dict, a dict with an entry for
\* another string.
CacheArgs ==
  { NoCache,
    CallerCache(EmptyCache),
    CallerCache(CachePut(EmptyCache, N_Ab, EmbeddingOf(N_Ab))) }

\* A call before its first statement: its two strings, whether the provider
\* succeeds on a request of this call for the first and for the second string.
\* given is the caller's dict as the call found it, present[k] whether the
\* lookup of string k found an entry, overlapped whether another call ran
\* while this one did.
NewCall(a, b, ok1, ok2) ==
  [s |-> <<a, b>>, ok |-> <<ok1, ok2>>, at |-> "start", k |-> 1, own |-> FALSE,
   given |-> EmptyCache, local |-> EmptyCache, present |-> <<FALSE, FALSE>>,
   emb |-> <<ZeroVector, ZeroVector>>, requests |-> 0, similarity |-> None,
   overlapped |-> FALSE]

NewCalls ==
  { NewCall(a, b, ok1, ok2) : a, b \in CacheStrings, ok1, ok2 \in BOOLEAN }

\* The dict a call works on: its own, or the caller's.
DictOf(c, shared) == IF c.own THEN c.local ELSE shared

\* "if not OPENAI_AVAILABLE: return 0.0" and "cache = embeddings_cache or {}".
BeginCall(c, available, cache_arg) ==
  IF ~available THEN [c EXCEPT !.at = "returned", !.similarity = Zero]
  ELSE [c EXCEPT !.at = "check",
                 !.own = ~cache_arg.passed \/ DOMAIN cache_arg.map = {},
                 !.given = cache_arg.map]

\* "if s in cache:"
CheckCall(c, dict) ==
  [c EXCEPT !.at = IF c.s[c.k] \in DOMAIN dict THEN "read" ELSE "request",
            !.present[c.k] = c.s[c.k] \in DOMAIN dict]

\* The statement after the lookup of string k: the lookup of the second
\* string, or the cosine.
AfterLookup(c) ==
  IF c.k = 1 THEN [c EXCEPT !.at = "check", !.k = 2] ELSE [c EXCEPT !.at = "cosine"]

\* "emb = cache[s]"
ReadCall(c, dict) == AfterLookup([c EXCEPT !.emb[c.k] = dict[c.s[c.k]]])

\* "emb = get_embedding(s)"
RequestCall(c) ==
  [c EXCEPT !.at = "put",
            !.emb[c.k] = get_embedding(ProviderAnswer(c.s[c.k], c.ok[c.k])),
            !.requests = c.requests + 1]

\* "cache[s] = emb" on the call's own dict.
PutOwn(c) == AfterLookup([c EXCEPT !.local = CachePut(c.local, c.s[c.k], c.emb[c.k])])

\* "similarity = cosine_similarity([emb1], [emb2])[0][0]; return float(similarity)"
CosineCall(c) ==
  [c EXCEPT !.at = "returned", !.similarity = cosine_similarity(c.emb[1], c.emb[2])]

CacheInit ==
  /\ snapshot = NoSnapshot
  /\ entities = <<>>
  /\ name_changes = <<>>
  /\ registry_types = TypesOfLists
  /\ OPENAI_AVAILABLE = TRUE
  /\ NoResolution
  /\ NoSimilarity
  /\ NoMatching
  /\ NoTokenizing
  /\ embeddings_cache \in CacheArgs
  /\ calls \in [1..MaxConcurrent -> NewCalls]

\* The call has begun and not returned.
Running(c) == c.at \notin {"start", "returned"}

Begin(i) ==
  /\ calls[i].at = "start"
  /\ calls' =
       [j \in DOMAIN calls |->
          IF j = i
          THEN [BeginCall(calls[i], OPENAI_AVAILABLE, embeddings_cache)
                  EXCEPT !.overlapped = \E h \in DOMAIN calls : Running(calls[h])]
          ELSE [calls[j] EXCEPT !.overlapped = calls[j].overlapped \/ Running(calls[j])]]
  /\ UNCHANGED <<registry, resolution, similarity, matching, tokenizing, embeddings_cache>>

Check(i) ==
  /\ calls[i].at = "check"
  /\ calls' = [calls EXCEPT ![i] = CheckCall(calls[i], DictOf(calls[i], embeddings_cache.map))]
  /\ UNCHANGED <<registry, resolution, similarity, matching, tokenizing, embeddings_cache>>

Read(i) ==
  /\ calls[i].at = "read"
  /\ calls' = [calls EXCEPT ![i] = ReadCall(calls[i], DictOf(calls[i], embeddings_cache.map))]
  /\ UNCHANGED <<registry, resolution, similarity, matching, tokenizing, embeddings_cache>>

Request(i) ==
  /\ calls[i].at = "request"
  /\ calls' = [calls EXCEPT ![i] = RequestCall(calls[i])]
  /\ UNCHANGED <<registry, resolution, similarity, matching, tokenizing, embeddings_cache>>

Put(i) ==
  /\ calls[i].at = "put"
  /\ IF calls[i].own
     THEN /\ calls' = [calls EXCEPT ![i] = PutOwn(calls[i])]
          /\ UNCHANGED embeddings_cache
     ELSE /\ calls' = [calls EXCEPT ![i] = AfterLookup(calls[i])]
          /\ embeddings_cache' =
               CallerCache(CachePut(embeddings_cache.map, calls[i].s[calls[i].k],
                                    calls[i].emb[calls[i].k]))
  /\ UNCHANGED <<registry, resolution, similarity, matching, tokenizing>>

Cosine(i) ==
  /\ calls[i].at = "cosine"
  /\ calls' = [calls EXCEPT ![i] = CosineCall(calls[i])]
  /\ UNCHANGED <<registry, resolution, similarity, matching, tokenizing, embeddings_cache>>

CacheNext ==
  \E i \in 1..MaxConcurrent :
    Begin(i) \/ Check(i) \/ Read(i) \/ Request(i) \/ Put(i) \/ Cosine(i)

CacheSpec == CacheInit /\ [][CacheNext]_vars

(***************************************************************************)
(* tokenize on its own: called on s1, then on s2                           *)
(***************************************************************************)
\* At most MaxWord characters in a drawn word.
MaxWord == 2

\* Word strings: the drawn ones, a stop word, a word with a digit.
WordPool ==
  UNION { [1..n -> {"S", "P"}] : n \in 1..MaxWord } \cup { <<"o", "f">>, <<"A", "1">> }

Ampersand == <<"&">>

AndBetween == <<" ", "a", "n", "d", " ">>

\* The strings "X&Y" and "X and Y" of two words.
AmpersandForm(x, y) == x \o Ampersand \o y

AndForm(x, y) == x \o AndBetween \o y

\* Other texts: stop words, punctuation, single characters, names.
TokenTexts ==
  ExtraStrings \cup
  { <<"a">>, <<"a", "n", " ", "o", "f", " ", "X", "y">>,
    <<"A", " ", "&", " ", "B", "c">>, <<"t", "o", "-", "b", "y", ".">>, Q_Steves }

TokenInit ==
  /\ snapshot = NoSnapshot
  /\ entities = <<>>
  /\ name_changes = <<>>
  /\ registry_types = TypesOfLists
  /\ OPENAI_AVAILABLE = FALSE
  /\ NoResolution
  /\ NoMatching
  /\ NoCaching
  /\ forward = None
  /\ backward = None
  /\ tokens = <<>>
  /\ \/ \E x, y \in WordPool :
          /\ s1 = AmpersandForm(x, y)
          /\ s2 = AndForm(x, y)
     \/ /\ s1 \in TokenTexts
        /\ s2 \in TokenTexts

\* tokenize(s1), then tokenize(s2)
Tokenize ==
  /\ Len(tokens) < 2
  /\ tokens' = Append(tokens, tokenize(IF tokens = <<>> THEN s1 ELSE s2))
  /\ UNCHANGED <<registry, resolution, similarity, matching, caching>>

TokenNext == Tokenize

TokenSpec == TokenInit /\ [][TokenNext]_vars
(***************************************************************************)
(* Properties                                                              *)
(***************************************************************************)
\* The entity carries the name: its canonical name or one of its aliases
\* equals it up to letter case.
Carries(entity, name) ==
  \/ Lower(entity.name) = Lower(name)
  \/ \E k \in 1..Len(entity.aliases) : Lower(entity.aliases[k]) = Lower(name)

\* Position i is the first of the registry whose entity carries the name.
FirstCarrier(i, name) ==
  /\ Carries(entities[i], name)
  /\ \A k \in 1..(i - 1) : ~Carries(entities[k], name)

NoCarrier(name) == \A i \in 1..Len(entities) : ~Carries(entities[i], name)

\* The result of multi_stage_entity_matching is an exact match of the entity.
ExactResultOf(entity) ==
  /\ result.method = "exact_match"
  /\ result.confidence = One
  /\ result.name_change_detected = FALSE
  /\ result.matched_entity = entity

\* The result of map_entity is an exact match of the entity.
ExactMappingOf(entity) ==
  /\ map_result.mapped_entity_id = <<entity.id>>
  /\ map_result.mapped_entity_name = <<entity.name>>
  /\ map_result.confidence = One
  /\ map_result.name_change_detected = FALSE

\* C1 as stated: resolving the name of any entity e of the registry returns
\* exact_match, confidence 1.0 and the entity with e's id, also when other
\* entities share the name or carry it as an alias.
C1_NameResolvesToItsEntity ==
  pc = "done" =>
    \A i \in 1..Len(entities) :
      entities[i].name = query_name =>
        /\ result.method = "exact_match"
        /\ result.confidence = One
        /\ result.matched_entity # None
        /\ result.matched_entity.id = entities[i].id

\* C1 amended: resolving the name of an entity of the registry returns
\* exact_match, confidence 1.0 and the first entity, in registry order, whose
\* name or an alias equals that name up to letter case.
C1_NameResolvesToFirstCarrier ==
  pc = "done" =>
    \A i \in 1..Len(entities) :
      entities[i].name = query_name =>
        \E j \in 1..i : FirstCarrier(j, query_name) /\ ExactResultOf(entities[j])

\* A name of the second entity is resolved and the first entity, which carries
\* it too, is returned.
C1_Witness ==
  /\ pc = "done"
  /\ Len(entities) = 2
  /\ entities[2].name = query_name
  /\ Carries(entities[1], query_name)
  /\ result.method = "exact_match"
  /\ result.matched_entity = entities[1]

\* C2 as stated: resolving an alias of an entity e, in any letter case, with
\* multi_stage_entity_matching or with map_entity on a company record, returns
\* an exact match against e with confidence 1.0 and no name change detected.
C2_AliasResolvesToItsEntity ==
  /\ pc = "done" =>
       \A i \in 1..Len(entities) :
         (\E k \in 1..Len(entities[i].aliases) :
            Lower(entities[i].aliases[k]) = Lower(query_name))
         => ExactResultOf(entities[i])
  /\ (pc = "mapped" /\ map_args.kind = "company") =>
       \A i \in 1..Len(entities) :
         (\E k \in 1..Len(entities[i].aliases) :
            Lower(entities[i].aliases[k]) = Lower(map_args.name))
         => ExactMappingOf(entities[i])

\* C2 amended: resolving an alias of an entity, in any letter case, returns an
\* exact match with confidence 1.0 and no name change detected against the
\* first entity, in registry order, whose name or an alias equals it up to
\* letter case.
C2_AliasResolvesToFirstCarrier ==
  /\ pc = "done" =>
       \A i \in 1..Len(entities) :
         (\E k \in 1..Len(entities[i].aliases) :
            Lower(entities[i].aliases[k]) = Lower(query_name))
         => \E j \in 1..i : FirstCarrier(j, query_name) /\ ExactResultOf(entities[j])
  /\ (pc = "mapped" /\ map_args.kind = "company") =>
       \A i \in 1..Len(entities) :
         (\E k \in 1..Len(entities[i].aliases) :
            Lower(entities[i].aliases[k]) = Lower(map_args.name))
         => \E j \in 1..i : FirstCarrier(j, map_args.name) /\ ExactMappingOf(entities[j])

\* map_entity resolved an alias written in another letter case to its entity.
C2_Witness ==
  /\ pc = "mapped"
  /\ map_args.kind = "company"
  /\ \E i \in 1..Len(entities) :
       /\ \E k \in 1..Len(entities[i].aliases) :
            /\ Lower(entities[i].aliases[k]) = Lower(map_args.name)
            /\ entities[i].aliases[k] # map_args.name
       /\ Lower(entities[i].name) # Lower(map_args.name)
       /\ ExactMappingOf(entities[i])

\* The record's entity_id is the id of an entity of the registry.
Resolvable(change) == \E j \in 1..Len(entities) : entities[j].id = change.entity_id

\* C3 as stated, for the names stage 1 leaves to the later stages: resolving
\* the previous_name P of a record whose entity_id resolves returns
\* name_change, confidence 0.9 and the entity with that id, whatever the
\* record's position and the other records.
C3_PreviousNameResolvesToItsRecord ==
  (pc = "done" /\ NoCarrier(query_name)) =>
    \A i \in 1..Len(name_changes) :
      (name_changes[i].previous_name = query_name /\ Resolvable(name_changes[i])) =>
        /\ result.method = "name_change"
        /\ result.confidence = NameChangeDiscount
        /\ result.matched_entity # None
        /\ result.matched_entity.id = name_changes[i].entity_id

\* A name-change result or mapping rests on this record: the names are the
\* record's and the entity returned is the registry's entity with its id.
Justifies(change, id, details) ==
  /\ change.previous_name = details.previous_name
  /\ change.current_name = details.current_name
  /\ change.entity_id = id
  /\ Resolvable(change)

\* Some record of the registry names no entity.
HasDanglingRecord == \E i \in 1..Len(name_changes) : ~Resolvable(name_changes[i])

\* The name-change records without those that name no entity.
ResolvableRecords == SelectSeq(name_changes, Resolvable)

\* An entry of the list search_by_name returned that carries a record carries
\* a record of the registry whose entity_id is the id of the entry's entity,
\* an entity of the registry.
HitRestsOnItsRecord(hit) ==
  hit.name_change # None =>
    /\ \E i \in 1..Len(name_changes) : name_changes[i] = hit.name_change
    /\ Resolvable(hit.name_change)
    /\ \E j \in 1..Len(entities) : entities[j] = hit.entity
    /\ hit.entity.id = hit.name_change.entity_id

\* The lexical stages of the running call end as they do on the registry
\* without the records that name no entity: with that result when the call
\* returned without a fourth stage, with nothing when it went on to it.
StagesIgnoreDangling(lexical) ==
  /\ (pc = "done" /\ Len(stages) <= 3) =>
       /\ stages = lexical.stages
       /\ result = IF lexical.result # None THEN lexical.result ELSE NoMatchResult
  /\ (pc = "semantic" \/ Len(stages) = 4) => lexical.result = None

\* C4: a record whose entity_id is the id of no entity is inert.  No entry of
\* the list search_by_name returns carries it, and every result that reports
\* a name change, of multi_stage_entity_matching and of map_entity, returns an
\* entity and rests on a record whose entity_id is that entity's id; no call
\* raises on a registry that holds such a record; and search_by_name,
\* map_entity and the stages of multi_stage_entity_matching return what they
\* return on the registry without these records, so that resolution goes on
\* to the remaining records, the later stages or no_match.
C4_DanglingRecordInert ==
  /\ pc = "searched" =>
       \A k \in 1..Len(search_result) : HitRestsOnItsRecord(search_result[k])
  /\ (pc = "done" /\ result.name_change_detected) =>
       /\ result.matched_entity # None
       /\ \E j \in 1..Len(entities) : entities[j] = result.matched_entity
       /\ \E i \in 1..Len(name_changes) :
            Justifies(name_changes[i], result.matched_entity.id, result.name_change_details)
  /\ (pc = "mapped" /\ map_result.name_change_detected) =>
       /\ map_result.mapped_entity_id # <<>>
       /\ \E i \in 1..Len(name_changes) :
            Justifies(name_changes[i], map_result.mapped_entity_id[1], map_result.name_change)
  /\ HasDanglingRecord =>
       /\ pc # "raised"
       /\ raised = <<>>
       /\ pc = "searched" =>
            search_result = search_by_name(entities, ResolvableRecords, search_args.name,
                                           search_args.threshold)
       /\ pc = "mapped" =>
            map_result = map_entity(entities, ResolvableRecords, map_args.match_threshold,
                                    map_args.enable_fuzzy_matching,
                                    [kind |-> map_args.kind, name |-> map_args.name])
       /\ ((pc = "done" \/ pc = "semantic") /\ scores = <<>> /\ emb1 = None) =>
            Strict(StagesIgnoreDangling,
                   LexicalStages(query_name, entities, ResolvableRecords, threshold))

\* The first record equals the query and names no entity; resolution went on
\* to a later record.
C4_Witness ==
  /\ pc = "done"
  /\ Len(name_changes) = 2
  /\ name_changes[1].previous_name = query_name
  /\ ~Resolvable(name_changes[1])
  /\ result.method = "name_change"
  /\ result.matched_entity.id = name_changes[2].entity_id

\* The stages in the order the pipeline tries them.
StageOrder == <<"exact", "name_change", "fuzzy", "semantic">>

\* The method a result has when the last stage tried accepted.
StageMethod ==
  [exact |-> "exact_match", name_change |-> "name_change", fuzzy |-> "fuzzy_match",
   semantic |-> "semantic_match"]

\* C5: the pipeline tries Exact, Name-change, Fuzzy, Semantic in this order and
\* returns at the first stage that accepts: a stage's result is returned only
\* if every earlier stage found nothing, the embedding provider is called only
\* in runs where the three lexical stages found nothing, and a name that an
\* entity carries is an exact_match whatever the name-change records say.
C5_ShortCircuit ==
  pc = "done" =>
    /\ stages = SubSeq(StageOrder, 1, Len(stages))
    /\ Len(stages) >= 1
    /\ result.method # "no_match" => result.method = StageMethod[stages[Len(stages)]]
    /\ result.method = "no_match" => Len(stages) = IF OPENAI_AVAILABLE THEN 4 ELSE 3
    /\ ~NoCarrier(query_name) => (result.method = "exact_match" /\ stages = <<"exact">>)
    /\ Len(stages) >= 2 => NoCarrier(query_name)
    /\ Len(stages) >= 3 =>
         detect_name_changes(query_name, entities, name_changes, threshold) = None
    /\ Len(stages) >= 4 => FuzzyStage(query_name, entities, threshold) = None
    /\ provider_calls > 0 => Len(stages) = 4

\* A name that is an alias of one entity and the previous_name of a resolvable
\* record was resolved: exact_match.
C5_Witness ==
  /\ pc = "done"
  /\ result.method = "exact_match"
  /\ provider_calls = 0
  /\ \E i \in 1..Len(name_changes) :
       /\ name_changes[i].previous_name = query_name
       /\ Resolvable(name_changes[i])
       /\ result.matched_entity.id # name_changes[i].entity_id

\* The name is empty or consists of blanks.
IsBlank(name) == \A i \in 1..Len(name) : IsSpace(name[i])

\* C6 as stated: resolving an empty or blank name returns no_match, confidence
\* 0.0 and no entity, for every registry and threshold, and the embedding
\* provider is not called; map_entity leaves such a record unmapped.
C6_BlankNameIsNoMatch ==
  /\ (pc = "done" /\ IsBlank(query_name)) =>
       /\ result = NoMatchResult
       /\ provider_calls = 0
  /\ (pc = "mapped" /\ IsBlank(map_args.name)) =>
       /\ map_result.mapped_entity_id = <<>>
       /\ map_result.confidence = Zero

\* 0 <= x <= 1
InUnitInterval(x) == RGeq(x, Zero) /\ RGeq(One, x)

\* C7 as stated: every result has its confidence within [0.0, 1.0], and the
\* confidence is 0.0 exactly when no entity is returned.
C7_ConfidenceZeroIffNoMatch ==
  /\ pc = "done" =>
       /\ InUnitInterval(result.confidence)
       /\ (result.confidence = Zero) <=> (result.matched_entity = None)
  /\ pc = "mapped" =>
       /\ InUnitInterval(map_result.confidence)
       /\ (map_result.confidence = Zero) <=> (map_result.mapped_entity_id = <<>>)

\* The names of a name-change record, as results carry them.
RecordNames(change) ==
  [previous_name |-> change.previous_name, current_name |-> change.current_name]

\* C8: name_change_detected is true only in a result produced from a
\* name-change record (method name_change; a mapping of a search hit that
\* carries a record), and the name-change details are present exactly when it
\* is true, and are then the names of a record of the registry.
C8_NameChangeFlag ==
  /\ pc = "done" =>
       /\ (result.name_change_details # None) <=> result.name_change_detected
       /\ result.name_change_detected => result.method = "name_change"
       /\ result.name_change_detected =>
            \E i \in 1..Len(name_changes) :
              result.name_change_details = RecordNames(name_changes[i])
  /\ pc = "mapped" =>
       /\ (map_result.name_change # None) <=> map_result.name_change_detected
       /\ map_result.name_change_detected =>
            \E i \in 1..Len(name_changes) :
              /\ map_result.name_change = RecordNames(name_changes[i])
              /\ map_result.mapped_entity_id = <<name_changes[i].entity_id>>

\* A result of each kind: a name change detected, with its details.
C8_Witness ==
  /\ pc = "done"
  /\ result.name_change_detected
  /\ result.name_change_details # None
  /\ result.name_change_details.previous_name # query_name

\* C9 as stated: weighted_similarity(s, s) = 1.0 for every non-empty string s.
C9_Reflexive ==
  (s1 = s2 /\ s1 # <<>> /\ forward # None) => forward = One

\* C10: weighted_similarity(s1, s2) = weighted_similarity(s2, s1).
C10_Symmetric ==
  (forward # None /\ backward # None) => forward = backward

\* Both orders were computed for two strings that differ beyond letter case
\* and are similar to a degree.
C10_Witness ==
  /\ forward # None
  /\ backward # None
  /\ Lower(s1) # Lower(s2)
  /\ Len(s1) # Len(s2)
  /\ RLess(Zero, forward)
  /\ RLess(forward, One)

\* The score call c of find_best_match computed for candidate i.
ScoreAt(c, i) == call_scores[c][i][2]

\* Call c scored every candidate, in the order of the list, and a lexical
\* method scored it with its similarity function.
ScoredEveryCandidate(c) ==
  /\ Len(call_scores[c]) = Len(candidates)
  /\ \A i \in 1..Len(candidates) :
       /\ call_scores[c][i][1] = candidates[i]
       /\ method # "semantic" => ScoreAt(c, i) = SimilarityFunc(method, query, candidates[i])

\* Candidate i is the earliest candidate with the greatest score of call c.
EarliestBest(c, i) ==
  /\ \A j \in 1..Len(candidates) : RGeq(ScoreAt(c, i), ScoreAt(c, j))
  /\ \A j \in 1..(i - 1) : RLess(ScoreAt(c, j), ScoreAt(c, i))

\* Call c returned the pair of the earliest candidate with the greatest score,
\* or none, which it does exactly when no score reaches the threshold.
ReturnsEarliestBest(c) ==
  /\ ScoredEveryCandidate(c)
  /\ best_match[c] = None <=>
       \A i \in 1..Len(candidates) : RLess(ScoreAt(c, i), threshold)
  /\ best_match[c] # None =>
       \E i \in 1..Len(candidates) :
         /\ EarliestBest(c, i)
         /\ best_match[c] = <<candidates[i], ScoreAt(c, i)>>

\* C11 as stated: find_best_match returns the same value on every call with
\* the same arguments; the value is the pair of the earliest candidate with
\* the greatest score and that score; it is none exactly when there is no
\* candidate or the greatest score is below the threshold, a greatest score
\* equal to the threshold being accepted.
C11_FindBestMatch ==
  \A c \in 1..Len(best_match) :
    /\ best_match[c] = best_match[1]
    /\ ReturnsEarliestBest(c)

\* C11 amended: the calls with the same arguments return the same value when
\* the method is lexical or the provider package is missing, and with the
\* method "semantic" when the provider's answers give the candidates the same
\* scores; every call returns the pair of the earliest candidate with the
\* greatest score, none exactly when no score reaches the threshold.
C11_DeterministicUpToProvider ==
  \A c \in 1..Len(best_match) :
    /\ (~AsksProvider \/ call_scores[c] = call_scores[1]) => best_match[c] = best_match[1]
    /\ ReturnsEarliestBest(c)

\* Two calls with the same arguments returned different values, the second
\* one the first of two different candidates that tie for the greatest score,
\* which equals the threshold.
C11_Witness ==
  /\ Len(best_match) = 2
  /\ Len(candidates) = 2
  /\ candidates[1] # candidates[2]
  /\ best_match[1] # best_match[2]
  /\ ScoreAt(2, 1) = ScoreAt(2, 2)
  /\ ScoreAt(2, 1) = threshold
  /\ best_match[2] = <<candidates[1], ScoreAt(2, 1)>>

\* The entities of the registry that carry the name, in registry order.
Carriers(name) == SelectSeq(entities, LAMBDA e : Carries(e, name))

\* C12: when the name equals, up to letter case, the name or an alias of some
\* entity, search_by_name returns exactly the entities that carry it, each
\* once and in registry order, every entry with score 1.0 and without a
\* name-change record: the later passes add nothing.
C12_ExactMatchesShortCircuit ==
  (pc = "searched" /\ ~NoCarrier(search_args.name)) =>
    /\ Len(search_result) = Len(Carriers(search_args.name))
    /\ \A i \in 1..Len(search_result) :
         search_result[i] = SearchHit(Carriers(search_args.name)[i], One, None)

\* A search for a name that one entity carries and that is also the previous
\* name of a record of another entity of the registry returned the carrier
\* alone.
C12_Witness ==
  /\ pc = "searched"
  /\ Len(search_result) = 1
  /\ Carries(search_result[1].entity, search_args.name)
  /\ \E i \in 1..Len(name_changes) :
       /\ Lower(name_changes[i].previous_name) = Lower(search_args.name)
       /\ Resolvable(name_changes[i])
       /\ name_changes[i].entity_id # search_result[1].entity.id

\* The greatest of the ratios of the query to the entity's name and to each of
\* its aliases.
BestRatio(entity, name) ==
  FoldRange(LAMBDA best, k : RMax(best, RatioScore(entity.aliases[k], name)),
            RatioScore(entity.name, name), 1, Len(entity.aliases))

\* The search went on to the fuzzy pass: no entity carries the name and no
\* record of an entity of the registry has it as previous name.
FuzzyPass ==
  /\ pc = "searched"
  /\ NoCarrier(search_args.name)
  /\ \A i \in 1..Len(name_changes) :
       Lower(name_changes[i].previous_name) = Lower(search_args.name)
         => ~Resolvable(name_changes[i])

\* C13 as stated: in the fuzzy pass every entity whose best ratio, over its
\* name and its aliases, reaches the threshold is returned with exactly that
\* best ratio as score.
C13_BestOfNameAndAliases ==
  FuzzyPass =>
    \A i \in 1..Len(entities) :
      RGeq(BestRatio(entities[i], search_args.name), search_args.threshold) =>
        \E k \in 1..Len(search_result) :
          /\ search_result[k].entity = entities[i]
          /\ search_result[k].name_change = None
          /\ search_result[k].score = BestRatio(entities[i], search_args.name)

\* The threshold map_entity passes to search_by_name.
SearchThreshold(args) ==
  IF args.enable_fuzzy_matching THEN args.match_threshold ELSE One

\* No hit has a score above the confidence.
NoHitAbove(confidence, hits) ==
  \A i \in 1..Len(hits) : RGeq(confidence, hits[i].score)

\* C14: the sequence search_by_name returns is ordered by score, highest
\* first; when it comes from the fuzzy pass every entry, entity hits and
\* name-change hits alike, has a score of at least the threshold; and the
\* entry map_entity takes as best match, the first, has the greatest score of
\* all entries of the search.
C14_OrderedByScore ==
  /\ pc = "searched" =>
       /\ \A i, j \in 1..Len(search_result) :
            i < j => RGeq(search_result[i].score, search_result[j].score)
       /\ FuzzyPass =>
            \A i \in 1..Len(search_result) :
              RGeq(search_result[i].score, search_args.threshold)
  /\ (pc = "mapped" /\ map_result.mapped_entity_id # <<>>) =>
       NoHitAbove(map_result.confidence,
                  search_by_name(entities, name_changes, map_args.name,
                                 SearchThreshold(map_args)))

\* A fuzzy search returned a name-change hit in front of an entity hit with a
\* smaller score, the entity hits having been found first.
C14_Witness ==
  /\ FuzzyPass
  /\ Len(search_result) >= 2
  /\ search_result[1].name_change # None
  /\ search_result[2].name_change = None
  /\ RLess(search_result[2].score, search_result[1].score)

\* C15: no step of a resolution call (search_by_name, map_entity,
\* map_entities, multi_stage_entity_matching with its detect_name_changes and
\* find_best_match calls) changes the registry: the sequence of entities and
\* the sequence of name-change records stay as they are, in contents and in
\* order.
C15_RegistryUnchanged ==
  [][entities' = entities /\ name_changes' = name_changes]_vars

\* A map_entities call has returned two results, one of them through a
\* name-change record, from a registry of two entities and two records.
C15_Witness ==
  /\ pc = "batch"
  /\ Len(batch_results) = 2
  /\ Len(entities) = 2
  /\ Len(name_changes) = 2
  /\ \E i \in 1..2 : batch_results[i].name_change_detected

\* C16: map_entities returns one result per record of the batch, in the order
\* of the batch, and each result is what map_entity returns for that record
\* alone, whatever the other records of the batch and their order.
C16_BatchIndependent ==
  pc = "batch" =>
    /\ Len(batch_results) = Len(batch_args.entities)
    /\ \A i \in 1..Len(batch_results) :
         /\ batch_results[i].original_entity = batch_args.entities[i]
         /\ batch_results[i] =
              map_entity(entities, name_changes, batch_args.match_threshold,
                         batch_args.enable_fuzzy_matching, batch_args.entities[i])

\* A batch of two records of different kinds was mapped: the results are two,
\* the first maps its record and the second does not.
C16_Witness ==
  /\ pc = "batch"
  /\ Len(batch_args.entities) = 2
  /\ Len(batch_results) = 2
  /\ batch_results[1].mapped_entity_id # <<>>
  /\ batch_results[2].mapped_entity_id = <<>>
  /\ batch_results[2].original_entity # batch_results[1].original_entity

\* The result maps its record to nothing.
Unmapped(mapping_result) ==
  /\ mapping_result.mapped_entity_id = <<>>
  /\ mapping_result.mapped_entity_name = <<>>
  /\ mapping_result.confidence = Zero
  /\ mapping_result.name_change_detected = FALSE
  /\ mapping_result.name_change = None

\* C17: map_entity passes the record's name to search_by_name exactly when the
\* record is a company record; a record of another kind gets a result without
\* mapped entity id and name, with confidence 0.0 and no name change
\* detected, also when its name is the name of an entity of the registry.
C17_OnlyCompaniesResolved ==
  /\ pc = "mapped" =>
       /\ map_args.kind = "company" => search_calls = <<map_args.name>>
       /\ map_args.kind # "company" => (search_calls = <<>> /\ Unmapped(map_result))
  /\ pc = "batch" =>
       \A i \in 1..Len(batch_results) :
         batch_args.entities[i].kind # "company" => Unmapped(batch_results[i])

\* A person record whose name is the name of an entity of the registry was
\* mapped, with fuzzy matching at threshold 0.0.
C17_Witness ==
  /\ pc = "mapped"
  /\ map_args.kind = "person"
  /\ map_args.enable_fuzzy_matching
  /\ map_args.match_threshold = Zero
  /\ \E i \in 1..Len(entities) : entities[i].name = map_args.name
  /\ Unmapped(map_result)

(***************************************************************************)
(* Construction from a snapshot                                            *)
(***************************************************************************)
\* The snapshot is a JSON object whose entities and name_changes members are
\* both arrays.
WellFormedSnapshot ==
  /\ snapshot.status = "object"
  /\ snapshot.entities.type = "list"
  /\ snapshot.name_changes.type = "list"

\* The registry holds exactly the seed.
HoldsSeed ==
  /\ registry_types = TypesOfLists
  /\ entities = SeedEntities
  /\ name_changes = SeedNameChanges

\* The registry holds exactly the two collections of the snapshot.
HoldsSnapshot ==
  /\ registry_types = TypesOfLists
  /\ entities = snapshot.entities.items
  /\ name_changes = snapshot.name_changes.items

\* C18: once EntityDatabase has been constructed from a snapshot path, the
\* registry holds exactly the two collections of the snapshot when the
\* snapshot is well-formed, and exactly the seed entities and seed
\* name-change records when it is not (missing file, invalid JSON, wrong
\* top-level shape, a collection missing or not an array).
C18_MalformedFallsBackToSeed ==
  (pc # "new" /\ snapshot.status # "none") =>
    IF WellFormedSnapshot THEN HoldsSnapshot ELSE HoldsSeed

\* C19: on every registry obtainable from construction, no call of
\* search_by_name, map_entity, map_entities or multi_stage_entity_matching
\* raises: each returns a result.
C19_NoCallRaises == pc # "raised" /\ raised = <<>>

(***************************************************************************)
(* Provider failures in the semantic stage                                 *)
(***************************************************************************)
\* No comparison whose two provider calls succeeded reaches the threshold of
\* the semantic stage.
NothingElseAccepts ==
  \A i \in 1..Len(scores) :
    ~failed[i] => RLess(scores[i][2], RSub(threshold, SemanticRelaxation))

\* C20: a provider failure in the semantic stage does not raise: the
\* comparison with the failing string scores 0.0, the stage goes on to the
\* next candidate, and the call ends in no_match when no comparison without a
\* failure reaches the threshold of the stage.
C20_ProviderFailureEndsInNoMatch ==
  ("semantic" \in { stages[i] : i \in 1..Len(stages) }) =>
    /\ raised = <<>>
    /\ Len(failed) >= Len(scores)
    /\ \A i \in 1..Len(scores) : failed[i] => scores[i][2] = Zero
    /\ (pc = "done" /\ NothingElseAccepts) => result = NoMatchResult

(***************************************************************************)
(* The embeddings cache                                                    *)
(***************************************************************************)
\* The provider's answer to a request of call c for its string k.
AnswerTo(c, k) == ProviderAnswer(c.s[k], c.ok[k])

\* What the call returns when it is made without a cache.
UncachedValue(c) ==
  semantic_similarity(c.s[1], c.s[2], NoCache, AnswerTo(c, 1), AnswerTo(c, 2)).similarity

\* What the call returns when it runs alone on the cache it was given.
AloneValue(c) ==
  semantic_similarity(c.s[1], c.s[2], [passed |-> embeddings_cache.passed, map |-> c.given],
                      AnswerTo(c, 1), AnswerTo(c, 2)).similarity

\* C21: semantic_similarity memoizes in the cache its caller passes, empty
\* or not: once a call has returned, the caller's cache has entries for both
\* strings of the call; and a lookup that found its string in the cache never
\* goes to the embedding provider.
C21_MemoizesInCallerCache ==
  \A i \in DOMAIN calls :
    /\ (calls[i].at = "returned" /\ embeddings_cache.passed) =>
         /\ calls[i].s[1] \in DOMAIN embeddings_cache.map
         /\ calls[i].s[2] \in DOMAIN embeddings_cache.map
    /\ calls[i].present[calls[i].k] => calls[i].at \notin {"request", "put"}

\* C22: the cache is an optimization only: in a sequence of calls sharing a
\* cache, whatever the provider's successes and failures, every call returns
\* the value that the same call returns without a cache.
C22_CacheIsOptimization ==
  \A i \in DOMAIN calls :
    (calls[i].at = "returned" /\ ~calls[i].overlapped) =>
      calls[i].similarity = UncachedValue(calls[i])

\* C23: calls running concurrently on one cache do not corrupt it, under
\* every interleaving of their steps: an entry under a key is a vector
\* obtained for that key, a call requests at most one embedding for each of
\* its strings (two calls missing on one key cost a redundant request only),
\* and each call returns what it returns when it runs alone.
C23_ConcurrentCallsIsolated ==
  /\ \A key \in DOMAIN embeddings_cache.map \cap CacheStrings :
       embeddings_cache.map[key] \in
         { get_embedding(ProviderAnswer(key, succeeds)) : succeeds \in BOOLEAN }
  /\ \A i \in DOMAIN calls :
       /\ calls[i].requests <= 2
       /\ calls[i].at = "returned" => calls[i].similarity = AloneValue(calls[i])

(***************************************************************************)
(* The weights of weighted_similarity                                      *)
(***************************************************************************)
\* 2.0 exact_match + 1.0 ratio + 1.5 token_sort + 2.0 token_set + 1.5 jaccard
LinearCombination(metrics) ==
  RAdd(RAdd(RAdd(RAdd(RMul(<<2, 1>>, metrics.exact_match), metrics.ratio),
                 RMul(<<3, 2>>, metrics.token_sort)),
            RMul(<<2, 1>>, metrics.token_set)),
       RMul(<<3, 2>>, metrics.jaccard))

InUnitRange(x) == RGeq(x, Zero) /\ RGeq(One, x)

\* C24 as stated: weighted_similarity(s1, s2) is the combination of the five
\* metrics with the weights 2.0, 1.0, 1.5, 2.0, 1.5 divided by 5.0, and lies
\* in [0, 1].
C24_NormalizedByFive ==
  forward # None =>
    /\ forward = RDiv(Strict(LinearCombination, SimilarityScores(s1, s2)), <<5, 1>>)
    /\ InUnitRange(forward)

\* C24: weighted_similarity(s1, s2) is the combination of the five metrics
\* with the weights 2.0, 1.0, 1.5, 2.0, 1.5 divided by the sum of the weights,
\* which is 8.0, and lies in [0, 1].
C24_NormalizedBySumOfWeights ==
  forward # None =>
    /\ forward = RDiv(Strict(LinearCombination, SimilarityScores(s1, s2)), <<8, 1>>)
    /\ InUnitRange(forward)

\* The similarity of two strings that differ was computed, and the
\* combination of their metrics exceeds 5.0.
C24_Witness ==
  /\ forward # None
  /\ s1 # s2
  /\ RLess(forward, One)
  /\ RLess(<<5, 1>>, Strict(LinearCombination, SimilarityScores(s1, s2)))

(***************************************************************************)
(* tokenize                                                                *)
(***************************************************************************)
StopWords ==
  { <<"t", "h", "e">>, <<"a", "n", "d">>, <<"a">>, <<"a", "n">>, <<"o", "f">>, <<"t", "o">>,
    <<"f", "o", "r">>, <<"i", "n">>, <<"o", "n">>, <<"b", "y">> }

\* C25: tokenize treats an ampersand between two word characters as the
\* joiner "and": for two words X and Y, tokenize("X&Y") = tokenize("X and Y");
\* and no token that tokenize returns has length <= 1 or is a stop word.
C25_AmpersandIsAnd ==
  /\ (Len(tokens) = 2 /\ \E x, y \in WordPool : s1 = AmpersandForm(x, y) /\ s2 = AndForm(x, y))
       => tokens[1] = tokens[2]
  /\ \A i \in 1..Len(tokens) : \A j \in 1..Len(tokens[i]) :
       Len(tokens[i][j]) > 1 /\ tokens[i][j] \notin StopWords

(***************************************************************************)
(* Scenario on the seed registry                                           *)
(***************************************************************************)
\* C26: on the seed registry, "Steve Trucking Co." at threshold 0.70 is
\* accepted by the fuzzy stage: the result has method fuzzy_match, the entity
\* comp004 and a confidence of at least 0.70.
C26_SteveTruckingCo ==
  (/\ pc = "done"
   /\ entities = SeedEntities
   /\ name_changes = SeedNameChanges
   /\ query_name = Q_SteveCo
   /\ threshold = <<7, 10>>) =>
    /\ result.method = "fuzzy_match"
    /\ result.matched_entity.id = "comp004"
    /\ RGeq(result.confidence, <<7, 10>>)

(***************************************************************************)
(* Thresholds above 0.75                                                   *)
(***************************************************************************)
ThreeQuarters == <<3, 4>>

\* weighted_similarity of the query and a name that differs from it beyond
\* letter case is at most 0.75.
AtMostThreeQuarters(name) ==
  Lower(name) # Lower(query_name) =>
    RGeq(ThreeQuarters, Strict2(weighted_similarity, query_name, name))

\* C27: two strings that differ beyond letter case have a weighted
\* similarity of at most 0.75; so at a threshold above 0.75
\* multi_stage_entity_matching never returns fuzzy_match, and its name-change
\* stage accepts only a previous name that equals the query up to letter
\* case.
C27_NoFuzzyAboveThreeQuarters ==
  pc = "done" =>
    /\ \A i \in 1..Len(entities) : AtMostThreeQuarters(entities[i].name)
    /\ \A i \in 1..Len(name_changes) : AtMostThreeQuarters(name_changes[i].previous_name)
    /\ RLess(ThreeQuarters, threshold) =>
         /\ result.method # "fuzzy_match"
         /\ result.method = "name_change" =>
              Lower(result.name_change_details.previous_name) = Lower(query_name)

\* A call at a threshold above 0.75 ended in no_match although the name of an
\* entity has a similarity of at least 0.7 with the query.
C27_Witness ==
  /\ pc = "done"
  /\ RLess(ThreeQuarters, threshold)
  /\ result.method = "no_match"
  /\ \E i \in 1..Len(entities) :
       RGeq(Strict2(weighted_similarity, query_name, entities[i].name), <<7, 10>>)

(***************************************************************************)
(* The name-change stage                                                   *)
(***************************************************************************)
\* weighted_similarity of the query and the previous name of record i.
PreviousSimilarity(i) ==
  Strict2(weighted_similarity, query_name, name_changes[i].previous_name)

\* Record i reaches the threshold and its entity_id names an entity.
Qualifies(i) ==
  /\ RGeq(PreviousSimilarity(i), threshold)
  /\ \E k \in 1..Len(entities) : entities[k].id = name_changes[i].entity_id

FirstQualifying ==
  CHOOSE i \in 1..Len(name_changes) : Qualifies(i) /\ \A k \in 1..(i - 1) : ~Qualifies(k)

\* The result is the one of the name-change stage for record i.
ReturnsRecord(i) ==
  /\ result.method = "name_change"
  /\ result.name_change_details.previous_name = name_changes[i].previous_name
  /\ result.name_change_details.current_name = name_changes[i].current_name
  /\ result.matched_entity.id = name_changes[i].entity_id
  /\ result.confidence = RMul(PreviousSimilarity(i), <<9, 10>>)

\* C28: when the name-change stage runs, it returns the first record in list
\* order whose previous_name has a weighted similarity of at least the
\* threshold with the query and whose entity_id names an entity of the
\* registry, with confidence 0.9 times that similarity; it returns nothing
\* only when no record is such.
C28_FirstQualifyingRecord ==
  (pc = "done" /\ Len(stages) >= 2) =>
    IF \E i \in 1..Len(name_changes) : Qualifies(i)
    THEN ReturnsRecord(FirstQualifying)
    ELSE result.method # "name_change"

\* The stage returned a record although a later record qualifies with a
\* greater similarity.
C28_Witness ==
  /\ pc = "done"
  /\ result.method = "name_change"
  /\ \E i \in 1..Len(name_changes) :
       /\ i > FirstQualifying
       /\ Qualifies(i)
       /\ RLess(PreviousSimilarity(FirstQualifying), PreviousSimilarity(i))
       /\ name_changes[i].entity_id # name_changes[FirstQualifying].entity_id

\* Some name-change record with a resolvable entity_id has the name, up to
\* letter case, as its previous_name.
IsResolvablePreviousName(name) ==
  \E i \in 1..Len(name_changes) :
    /\ Lower(name_changes[i].previous_name) = Lower(name)
    /\ Resolvable(name_changes[i])

\* map_entity returned a mapped entity.
IsMapped(mapping_result) == mapping_result.mapped_entity_id # <<>>

\* C29: with enable_fuzzy_matching false, map_entity maps a company name only
\* when it equals, up to letter case, a canonical name, an alias or the
\* previous_name of a name-change record whose entity_id resolves, and then
\* with confidence 1.0; every other company name gets an unmapped result with
\* confidence 0.0.
C29_FuzzyOffMapsOnlyExactNames ==
  (pc = "mapped" /\ map_args.kind = "company" /\ ~map_args.enable_fuzzy_matching) =>
    IF ~NoCarrier(map_args.name) \/ IsResolvablePreviousName(map_args.name)
    THEN IsMapped(map_result) /\ map_result.confidence = One
    ELSE Unmapped(map_result)

\* A company name that the same mapper maps with fuzzy matching enabled is
\* left unmapped with fuzzy matching disabled.
C29_Witness ==
  /\ pc = "mapped"
  /\ map_args.kind = "company"
  /\ ~map_args.enable_fuzzy_matching
  /\ NoCarrier(map_args.name)
  /\ ~IsResolvablePreviousName(map_args.name)
  /\ Unmapped(map_result)
  /\ IsMapped(map_entity(entities, name_changes, map_args.match_threshold, TRUE,
                         [kind |-> "company", name |-> map_args.name]))

\* The entity multi_stage_entity_matching returns for the name, as the list
\* of its id: <<>> when it returns no entity.
ResolvedId(lexical) ==
  IF lexical.result.matched_entity = None
  THEN <<>> ELSE <<lexical.result.matched_entity.id>>

\* C30: for a name that equals, up to letter case, a canonical name or an
\* alias, multi_stage_entity_matching and map_entity on a company record both
\* return the first entity of the registry that carries it, with confidence
\* 1.0 and no name change detected; each path returns the entity the other
\* one returns for the same name.
C30_PathsAgreeOnExactStage ==
  /\ (pc = "done" /\ ~NoCarrier(query_name)) =>
       /\ \E j \in 1..Len(entities) :
            FirstCarrier(j, query_name) /\ ExactResultOf(entities[j])
       /\ \A fuzzy \in BOOLEAN :
            map_entity(entities, name_changes, threshold, fuzzy,
                       [kind |-> "company", name |-> query_name]).mapped_entity_id
              = <<result.matched_entity.id>>
  /\ (pc = "mapped" /\ map_args.kind = "company" /\ ~NoCarrier(map_args.name)) =>
       /\ \E j \in 1..Len(entities) :
            FirstCarrier(j, map_args.name) /\ ExactMappingOf(entities[j])
       /\ ResolvedId(LexicalStages(map_args.name, entities, name_changes,
                                   map_args.match_threshold))
            = map_result.mapped_entity_id

\* map_entity mapped a name carried by two entities with different ids to
\* the first of them.
C30_Witness ==
  /\ pc = "mapped"
  /\ map_args.kind = "company"
  /\ \E i, j \in 1..Len(entities) :
       /\ i < j
       /\ FirstCarrier(i, map_args.name)
       /\ Carries(entities[j], map_args.name)
       /\ entities[i].id # entities[j].id
       /\ ExactMappingOf(entities[i])

====
